---- MODULE Spec2Model ----
(***************************************************************************)
(* Clock-tree configuration of the RCC driver (src/src/rcc.rs): the        *)
(* request builder, the PLL1 planner, the bus divider planner, the flash   *)
(* wait-state table and the register sequence of Rcc::freeze.              *)
(*                                                                         *)
(* Frequencies are in Hz, as in the code.  Option<u32> is modelled by the  *)
(* value itself for Some(v) and by None for None.  The request values are  *)
(* drawn from the finite sets HseVals .. PclkVals (all positive and far    *)
(* below 2^31, so no u32 arithmetic of the planner wraps on them).         *)
(***************************************************************************)
EXTENDS Integers, Sequences, FiniteSets, TLC

VARIABLES
    pc,      \* position of the program: builder, the steps of freeze, frozen, aborted
    config,  \* Rcc.config, the clock configuration request
    vos,     \* the voltage scale handed to freeze
    regs,    \* the fields of RCC, FLASH.ACR and SYSCFG.CCCSR the driver touches
    trace,   \* the register writes and confirmed polls of freeze, in program order
    ccdr,    \* the Ccdr values returned so far (a sequence of at most one)
    abort    \* the assertion that aborted freeze, "" when none did

vars == <<pc, config, vos, regs, trace, ccdr, abort>>

-----------------------------------------------------------------------------
(* Bounds and input sets *)

\* at most MaxSet fields of the request are Some(_) when freeze is called
MaxSet == 3

HseVals == {8000000, 25000000}
SysVals == {3000000, 8000000, 64000000, 100000000, 400000000, 420000000,
            480000000}
PerVals == {4000000, 8000000}
HclkVals == {50000000, 200000000}
PclkVals == {25000000, 200000000}

Scales == {"Scale0", "Scale1", "Scale2", "Scale3"}

\* the sweep of the PLL planner: sources 0.75 MHz .. 67.5 MHz and one above
\* the range of the reference prescaler, targets 3.5 MHz .. 455 MHz
MaxSrcStep == 90
MaxTgtStep == 130
PllSources == {750000 * k : k \in 1..MaxSrcStep} \cup {130000000}
PllTargets == {3500000 * k : k \in 1..MaxTgtStep}

-----------------------------------------------------------------------------
(* Option<u32> *)

None == -1
IsSome(x) == x # None
UnwrapOr(x, d) == IF x = None THEN d ELSE x

HSI == 64000000
CSI == 4000000

-----------------------------------------------------------------------------
(* Rcc::pll_setup: the PLL1 plan *)

srcclk(cfg) == UnwrapOr(cfg.hse, HSI)
ReqSysCk(cfg) == UnwrapOr(cfg.sys_ck, srcclk(cfg))

\* mutant: the comparison with the source dropped
PllEngaged_Always(cfg) == TRUE

\* if sys_ck != srcclk
PllEngaged(cfg) == ReqSysCk(cfg) # srcclk(cfg)

pllsrc(cfg) == IF IsSome(cfg.hse) THEN "HSE" ELSE "HSI"

\* mutant: one above the truncated quotient
pll1_m_Floor(cfg) == srcclk(cfg) \div 2000000 + 1

\* input divisor: the highest reference clock in the range 1 to 2 MHz
pll1_m(cfg) == (srcclk(cfg) + 1999999) \div 2000000
ref1_ck(cfg) == srcclk(cfg) \div pll1_m(cfg)

pll1_vco_min == 150000000
pll1_vco_max == 420000000

\* x | 1
BitOr1(x) == IF x % 2 = 0 THEN x + 1 ELSE x

\* mutant: the quotient taken as it is, even or odd
pll1_p_Odd(cfg) ==
    IF ReqSysCk(cfg) > pll1_vco_max \div 2
    THEN 1
    ELSE pll1_vco_max \div ReqSysCk(cfg)

\* VCO output divider: must be even or unity
pll1_p(cfg) ==
    IF ReqSysCk(cfg) > pll1_vco_max \div 2
    THEN 1
    ELSE BitOr1(pll1_vco_max \div ReqSysCk(cfg)) - 1

vco1_ck(cfg) == ReqSysCk(cfg) * pll1_p(cfg)

\* mutant: the feedback divider rounded up
pll1_n_RoundUp(cfg) == vco1_ck(cfg) \div ref1_ck(cfg) + 1
pll1_n(cfg) == vco1_ck(cfg) \div ref1_ck(cfg)

\* mutant: the division rounded up
pll1_p_ck_Ceil(cfg) ==
    (ref1_ck(cfg) * pll1_n(cfg) + pll1_p(cfg) - 1) \div pll1_p(cfg)

\* calculate PLL P output clock
pll1_p_ck(cfg) == (ref1_ck(cfg) * pll1_n(cfg)) \div pll1_p(cfg)
\* mutant: a Q divider of its own
pll1_q_Double(cfg) == 2 * pll1_p(cfg)

\* calculate PLL Q output clock - same as P
pll1_q(cfg) == pll1_p(cfg)
pll1_q_ck(cfg) == (ref1_ck(cfg) * pll1_n(cfg)) \div pll1_q(cfg)

\* mutant: the assertion on the VCO maximum dropped
PllSetupAbort_NoVcoMax(cfg) ==
    IF ~PllEngaged(cfg) THEN ""
    ELSE IF ~(srcclk(cfg) > 0) THEN "srcclk"
    ELSE IF ~(pll1_m(cfg) < 64) THEN "pll1_m"
    ELSE IF ~(ref1_ck(cfg) >= 1000000 /\ ref1_ck(cfg) <= 2000000) THEN "ref1_ck"
    ELSE IF ~(pll1_p(cfg) <= 128) THEN "pll1_p"
    ELSE IF ~(vco1_ck(cfg) >= pll1_vco_min) THEN "vco_min"
    ELSE IF ~(pll1_n(cfg) >= 4) THEN "pll1_n_min"
    ELSE IF ~(pll1_n(cfg) <= 512) THEN "pll1_n_max"
    ELSE ""

\* the first assertion of pll_setup that fails, "" when all hold
PllSetupAbort(cfg) ==
    IF ~PllEngaged(cfg) THEN ""
    ELSE IF ~(srcclk(cfg) > 0) THEN "srcclk"
    ELSE IF ~(pll1_m(cfg) < 64) THEN "pll1_m"
    ELSE IF ~(ref1_ck(cfg) >= 1000000 /\ ref1_ck(cfg) <= 2000000) THEN "ref1_ck"
    ELSE IF ~(pll1_p(cfg) <= 128) THEN "pll1_p"
    ELSE IF ~(vco1_ck(cfg) >= pll1_vco_min) THEN "vco_min"
    ELSE IF ~(vco1_ck(cfg) <= pll1_vco_max) THEN "vco_max"
    ELSE IF ~(pll1_n(cfg) >= 4) THEN "pll1_n_min"
    ELSE IF ~(pll1_n(cfg) <= 512) THEN "pll1_n_max"
    ELSE ""

\* the value pll_setup returns: (pll1_p_ck, pll1_q_ck, pll1_r_ck)
PllOut(cfg) ==
    IF PllEngaged(cfg)
    THEN <<pll1_p_ck(cfg), pll1_q_ck(cfg), None>>
    ELSE <<None, None, None>>

-----------------------------------------------------------------------------
(* Rcc::freeze: the bus divider plan *)

SysCk(cfg) == UnwrapOr(PllOut(cfg)[1], srcclk(cfg))

\* mutant: the CSI arm tried before the HSE arm
per_ck_ckpersel_CsiFirst(cfg) ==
    IF cfg.per_ck = CSI THEN <<CSI, "CSI">>
    ELSE IF cfg.per_ck = cfg.hse /\ IsSome(cfg.per_ck) THEN <<cfg.per_ck, "HSE">>
    ELSE <<HSI, "HSI">>

\* (per_ck, ckpersel)
per_ck_ckpersel(cfg) ==
    IF cfg.per_ck = cfg.hse /\ IsSome(cfg.per_ck) THEN <<cfg.per_ck, "HSE">>
    ELSE IF cfg.per_ck = CSI THEN <<CSI, "CSI">>
    ELSE <<HSI, "HSI">>

d1cpre_bits == 0
d1cpre_div == 1
sys_d1cpre_ck(cfg) == SysCk(cfg) \div d1cpre_div

timpre == "DEFAULTX2"

\* (sys_d1cpre_ck_max, rcc_hclk_max, pclk_max)
Ceilings(v) ==
    CASE v = "Scale0" -> <<480000000, 240000000, 120000000>>
      [] v = "Scale1" -> <<400000000, 200000000, 100000000>>
      [] v = "Scale2" -> <<300000000, 150000000, 75000000>>
      [] OTHER        -> <<200000000, 100000000, 50000000>>

\* mutant: the default AHB clock not halved
RccHclkReq_Full(cfg) == UnwrapOr(cfg.rcc_hclk, sys_d1cpre_ck(cfg))

\* the ideal AHB clock
RccHclkReq(cfg) == UnwrapOr(cfg.rcc_hclk, sys_d1cpre_ck(cfg) \div 2)

\* (hpre_bits, hpre_div) for a quotient q = (sys_d1cpre_ck + rcc_hclk - 1) / rcc_hclk
HpreOf(q) ==
    IF q = 1 THEN <<"DIV1", 1>>
    ELSE IF q = 2 THEN <<"DIV2", 2>>
    ELSE IF q <= 5 THEN <<"DIV4", 4>>
    ELSE IF q <= 11 THEN <<"DIV8", 8>>
    ELSE IF q <= 39 THEN <<"DIV16", 16>>
    ELSE IF q <= 95 THEN <<"DIV64", 64>>
    ELSE IF q <= 191 THEN <<"DIV128", 128>>
    ELSE IF q <= 383 THEN <<"DIV256", 256>>
    ELSE <<"DIV512", 512>>

Hpre(cfg) ==
    HpreOf((sys_d1cpre_ck(cfg) + RccHclkReq(cfg) - 1) \div RccHclkReq(cfg))

\* the real AXI and AHB clock
RccHclk(cfg) == sys_d1cpre_ck(cfg) \div Hpre(cfg)[2]

\* mutant: the default APB target not halved
PclkTarget_Max(req, max, hclk) == IF IsSome(req) THEN req ELSE max

\* ppre_calculate: the intended rcc_pclkN frequency
\* mutant: the default target not halved
PclkTarget_Hclk(req, max, hclk) ==
    IF IsSome(req) THEN req ELSE IF max < hclk THEN max ELSE hclk

PclkTarget(req, max, hclk) ==
    IF IsSome(req) THEN req ELSE IF max < hclk \div 2 THEN max ELSE hclk \div 2

\* mutant: the 4 and 8 arms of the match swapped
PpreOf_Swapped(q) ==
    IF q = 1 THEN <<0, 1>>
    ELSE IF q = 2 THEN <<4, 2>>
    ELSE IF q <= 5 THEN <<6, 8>>
    ELSE IF q <= 11 THEN <<5, 4>>
    ELSE <<7, 16>>

\* ppre_calculate: (bits, ppre) for a quotient q = (hclk + pclk - 1) / pclk
PpreOf(q) ==
    IF q = 1 THEN <<0, 1>>
    ELSE IF q = 2 THEN <<4, 2>>
    ELSE IF q <= 5 THEN <<5, 4>>
    ELSE IF q <= 11 THEN <<6, 8>>
    ELSE <<7, 16>>

PclkReq(cfg, n) ==
    CASE n = 1 -> cfg.rcc_pclk1
      [] n = 2 -> cfg.rcc_pclk2
      [] n = 3 -> cfg.rcc_pclk3
      [] n = 4 -> cfg.rcc_pclk4

\* (bits, ppre) of bus n
Ppre(cfg, v, n) ==
    LET hclk == RccHclk(cfg)
        pclk == PclkTarget(PclkReq(cfg, n), Ceilings(v)[3], hclk)
    IN  PpreOf((hclk + pclk - 1) \div pclk)

\* the real APBn clock
RccPclk(cfg, v, n) == RccHclk(cfg) \div Ppre(cfg, v, n)[2]

\* mutant: the rows of the x4 multiplier taken
RccTimKerCk_X4(cfg, v, n) ==
    LET bits == Ppre(cfg, v, n)[1]
        hclk == RccHclk(cfg)
    IN  IF bits = 6 THEN hclk \div 2
        ELSE IF bits = 7 THEN hclk \div 4
        ELSE hclk

\* rcc_timx_ker_ck (n = 1) and rcc_timy_ker_ck (n = 2)
RccTimKerCk(cfg, v, n) ==
    LET bits == Ppre(cfg, v, n)[1]
        hclk == RccHclk(cfg)
    IN  IF bits = 5 /\ timpre = "DEFAULTX2" THEN hclk \div 2
        ELSE IF bits = 6 /\ timpre = "DEFAULTX4" THEN hclk \div 2
        ELSE IF bits = 6 /\ timpre = "DEFAULTX2" THEN hclk \div 4
        ELSE IF bits = 7 /\ timpre = "DEFAULTX4" THEN hclk \div 4
        ELSE IF bits = 7 /\ timpre = "DEFAULTX2" THEN hclk \div 8
        ELSE hclk

\* assert!($pclk <= $max)
\* mutant: the range check dropped
PclkInRange_Unchecked(pclk, max) == TRUE
PclkInRange(pclk, max) == pclk <= max

\* mutant: the check of the requested hclk dropped
HclkReqInRange_Unchecked(req, max) == TRUE

\* assert!(rcc_hclk <= rcc_hclk_max), on the ideal AHB clock
HclkReqInRange(req, max) == req <= max

\* the first assertion of freeze's planning that fails, "" when all hold
FreezePlanAbort(cfg, v, r) ==
    IF ~r.hsion THEN "hsion"
    ELSE IF ~(r.hsidiv = 1) THEN "hsidiv"
    ELSE IF ~(sys_d1cpre_ck(cfg) <= Ceilings(v)[1]) THEN "sys_d1cpre_ck_max"
    ELSE IF ~HclkReqInRange(RccHclkReq(cfg), Ceilings(v)[2]) THEN "rcc_hclk_req"
    ELSE IF ~(RccHclk(cfg) <= Ceilings(v)[2]) THEN "rcc_hclk_max"
    ELSE IF ~PclkInRange(RccPclk(cfg, v, 1), Ceilings(v)[3]) THEN "rcc_pclk1"
    ELSE IF ~PclkInRange(RccPclk(cfg, v, 2), Ceilings(v)[3]) THEN "rcc_pclk2"
    ELSE IF ~PclkInRange(RccPclk(cfg, v, 3), Ceilings(v)[3]) THEN "rcc_pclk3"
    ELSE IF ~PclkInRange(RccPclk(cfg, v, 4), Ceilings(v)[3]) THEN "rcc_pclk4"
    ELSE ""

-----------------------------------------------------------------------------
(* Rcc::flash_setup: the wait-state table *)

\* the range arms of the match on rcc_aclk_mhz, in order: <<lo, hi, pair>>
FlashArms(v) ==
    IF v \in {"Scale0", "Scale1"} THEN
        <<<<0, 69, <<0, 0>>>>, <<70, 139, <<1, 1>>>>, <<140, 184, <<2, 1>>>>,
          <<185, 209, <<2, 2>>>>, <<210, 224, <<3, 2>>>>>>
    ELSE IF v = "Scale2" THEN
        <<<<0, 54, <<0, 0>>>>, <<55, 109, <<1, 1>>>>, <<110, 164, <<2, 1>>>>,
          <<165, 224, <<3, 2>>>>, <<225, 225, <<4, 2>>>>>>
    ELSE IF v = "Scale3" THEN
        <<<<0, 44, <<0, 0>>>>, <<45, 89, <<1, 1>>>>, <<90, 134, <<2, 1>>>>,
          <<135, 179, <<3, 2>>>>, <<180, 224, <<4, 2>>>>>>
    ELSE <<>>

\* the pair of the wildcard arm
FlashDefault == <<7, 3>>

\* mutant: the 225 MHz arm of Scale2 dropped
FlashTable_NoStep(mhz, v) ==
    IF v \in {"Scale0", "Scale1"} THEN
        IF mhz <= 69 THEN <<0, 0>>
        ELSE IF mhz <= 139 THEN <<1, 1>>
        ELSE IF mhz <= 184 THEN <<2, 1>>
        ELSE IF mhz <= 209 THEN <<2, 2>>
        ELSE IF mhz <= 224 THEN <<3, 2>>
        ELSE <<7, 3>>
    ELSE IF v = "Scale2" THEN
        IF mhz <= 54 THEN <<0, 0>>
        ELSE IF mhz <= 109 THEN <<1, 1>>
        ELSE IF mhz <= 164 THEN <<2, 1>>
        ELSE IF mhz <= 224 THEN <<3, 2>>
        ELSE <<7, 3>>
    ELSE IF v = "Scale3" THEN
        IF mhz <= 44 THEN <<0, 0>>
        ELSE IF mhz <= 89 THEN <<1, 1>>
        ELSE IF mhz <= 134 THEN <<2, 1>>
        ELSE IF mhz <= 179 THEN <<3, 2>>
        ELSE IF mhz <= 224 THEN <<4, 2>>
        ELSE <<7, 3>>
    ELSE <<7, 3>>

\* mutant: one wait-state in the band 185 to 209 MHz
FlashTable_Dip(mhz, v) ==
    IF mhz >= 185 /\ mhz <= 209 THEN <<1, 2>> ELSE FlashTable_NoStep(mhz, v)

\* (wait_states, progr_delay) of RM0433 Table 13
FlashTable(mhz, v) ==
    IF v \in {"Scale0", "Scale1"} THEN
        IF mhz <= 69 THEN <<0, 0>>
        ELSE IF mhz <= 139 THEN <<1, 1>>
        ELSE IF mhz <= 184 THEN <<2, 1>>
        ELSE IF mhz <= 209 THEN <<2, 2>>
        ELSE IF mhz <= 224 THEN <<3, 2>>
        ELSE <<7, 3>>
    ELSE IF v = "Scale2" THEN
        IF mhz <= 54 THEN <<0, 0>>
        ELSE IF mhz <= 109 THEN <<1, 1>>
        ELSE IF mhz <= 164 THEN <<2, 1>>
        ELSE IF mhz <= 224 THEN <<3, 2>>
        ELSE IF mhz = 225 THEN <<4, 2>>
        ELSE <<7, 3>>
    ELSE IF v = "Scale3" THEN
        IF mhz <= 44 THEN <<0, 0>>
        ELSE IF mhz <= 89 THEN <<1, 1>>
        ELSE IF mhz <= 134 THEN <<2, 1>>
        ELSE IF mhz <= 179 THEN <<3, 2>>
        ELSE IF mhz <= 224 THEN <<4, 2>>
        ELSE <<7, 3>>
    ELSE <<7, 3>>

\* flash_setup(rcc_aclk, vos): the pair it writes
FlashSetup(rcc_aclk, v) == FlashTable(rcc_aclk \div 1000000, v)

\* the argument freeze hands to flash_setup
FlashSetupArg(cfg) == sys_d1cpre_ck(cfg)

FlashPair(cfg, v) == FlashSetup(FlashSetupArg(cfg), v)

-----------------------------------------------------------------------------
(* State *)

\* RccExt::constrain: the empty request
EmptyConfig ==
    [hse |-> None, sys_ck |-> None, per_ck |-> None, rcc_hclk |-> None,
     rcc_pclk1 |-> None, rcc_pclk2 |-> None, rcc_pclk3 |-> None,
     rcc_pclk4 |-> None]

\* the register fields at reset
\* the SPI instances of the spi! table
SpiNames == {"SPI1", "SPI2", "SPI3", "SPI4", "SPI5", "SPI6"}

ResetRegs ==
    [hsion |-> TRUE, hsidiv |-> 1,
     csion |-> FALSE, csirdy |-> FALSE,
     hseon |-> FALSE, hsebyp |-> FALSE, hserdy |-> FALSE,
     pll1on |-> FALSE, pll1rdy |-> FALSE,
     pllsrc |-> "HSI", divm1 |-> 32,
     divn1 |-> 128, divp1 |-> 1, divq1 |-> 1,
     pll1fracen |-> FALSE, pll1vcosel |-> "WIDE_VCO", pll1rge |-> "RANGE0",
     divp1en |-> TRUE, divq1en |-> TRUE,
     d1cpre |-> 0, d1ppre |-> 0, hpre |-> "DIV1",
     d2ppre1 |-> 0, d2ppre2 |-> 0, d3ppre |-> 0,
     ckpersel |-> "HSI", timpre |-> "DEFAULTX2",
     sw |-> "HSI", sws |-> "HSI",
     syscfgen |-> FALSE,
     acr_latency_req |-> 7, acr_latency |-> 7, acr_wrhighfreq |-> 3,
     cccsr_en |-> FALSE, cccsr_cs |-> FALSE, cccsr_hslv |-> FALSE,
     cccsr_ready |-> FALSE,
     spi123sel |-> "PLL1_Q", spi45sel |-> "APB", spi6sel |-> "RCC_PCLK4",
     spien |-> [x \in SpiNames |-> FALSE],
     spimbr |-> [x \in SpiNames |-> "DIV2"],
     spispe |-> [x \in SpiNames |-> FALSE]]

Init ==
    /\ pc = "builder"
    /\ config = EmptyConfig
    /\ vos = "unset"
    /\ regs = ResetRegs
    /\ trace = <<>>
    /\ ccdr = <<>>
    /\ abort = ""

W(reg) == [op |-> "w", reg |-> reg]
R(reg) == [op |-> "r", reg |-> reg]

Writes(t) == SelectSeq(t, LAMBDA e : e.op = "w")

\* the first position of event e in t, 0 when absent
Pos(t, e) ==
    IF \E i \in 1..Len(t) : t[i] = e
    THEN CHOOSE i \in 1..Len(t) : t[i] = e /\ \A j \in 1..(i - 1) : t[j] # e
    ELSE 0

Count(t, e) == Cardinality({i \in 1..Len(t) : t[i] = e})

-----------------------------------------------------------------------------
(* The builder *)

NumSet(cfg) == Cardinality({f \in DOMAIN cfg : IsSome(cfg[f])})

Builder(field, freq) ==
    /\ pc = "builder"
    /\ config' = [config EXCEPT ![field] = freq]
    /\ NumSet(config') <= MaxSet
    /\ UNCHANGED <<pc, vos, regs, trace, ccdr, abort>>

use_hse == \E f \in HseVals : Builder("hse", f)
sys_ck == \E f \in SysVals : Builder("sys_ck", f)
sysclk == \E f \in SysVals : Builder("sys_ck", f)
per_ck == \E f \in PerVals : Builder("per_ck", f)
hclk == \E f \in HclkVals : Builder("rcc_hclk", f)
pclk1 == \E f \in PclkVals : Builder("rcc_pclk1", f)
pclk2 == \E f \in PclkVals : Builder("rcc_pclk2", f)
pclk3 == \E f \in PclkVals : Builder("rcc_pclk3", f)
pclk4 == \E f \in PclkVals : Builder("rcc_pclk4", f)

-----------------------------------------------------------------------------
(* Rcc::freeze, one action per register access *)

Abort(reason) ==
    /\ pc' = "aborted"
    /\ abort' = reason

\* a step of freeze that writes a register
WriteStep(from, to, reg, newregs) ==
    /\ pc = from
    /\ pc' = to
    /\ regs' = newregs
    /\ trace' = Append(trace, W(reg))
    /\ UNCHANGED <<config, vos, ccdr, abort>>

\* a busy-wait of freeze: it is left when the polled field reads the awaited value
PollStep(from, to, reg, ready) ==
    /\ pc = from
    /\ ready
    /\ pc' = to
    /\ trace' = Append(trace, R(reg))
    /\ UNCHANGED <<config, vos, regs, ccdr, abort>>

\* freeze is called: pll_setup plans PLL1
PllSetupPlan ==
    /\ pc = "builder"
    /\ \E v \in Scales : vos' = v
    /\ IF PllSetupAbort(config) # ""
       THEN Abort(PllSetupAbort(config))
       ELSE /\ pc' = IF PllEngaged(config) THEN "pll_pllckselr" ELSE "freeze_plan"
            /\ abort' = abort
    /\ UNCHANGED <<config, regs, trace, ccdr>>

\* pll_setup: write dividers
PllWritePllckselr ==
    WriteStep("pll_pllckselr", "pll_pll1divr", "pllckselr",
              [regs EXCEPT !.pllsrc = pllsrc(config), !.divm1 = pll1_m(config)])

\* mutant: the feedback divider taken from what an earlier run left
PllWritePll1divr_Hidden ==
    WriteStep("pll_pll1divr", "pll_pllcfgr", "pll1divr",
              [regs EXCEPT !.divq1 = pll1_q(config) - 1,
                           !.divp1 = pll1_p(config) - 1,
                           !.divn1 = IF regs.pll1on THEN regs.divn1 + 1
                                     ELSE pll1_n(config) - 1])

PllWritePll1divr ==
    WriteStep("pll_pll1divr", "pll_pllcfgr", "pll1divr",
              [regs EXCEPT !.divq1 = pll1_q(config) - 1,
                           !.divp1 = pll1_p(config) - 1,
                           !.divn1 = pll1_n(config) - 1])

\* pll_setup: configure PLL
PllWritePllcfgr ==
    WriteStep("pll_pllcfgr", "freeze_plan", "pllcfgr",
              [regs EXCEPT !.pll1fracen = FALSE, !.pll1vcosel = "MEDIUM_VCO",
                           !.pll1rge = "RANGE1", !.divp1en = TRUE,
                           !.divq1en = TRUE])

\* freeze: the HSI checks, the ceilings and the bus divider plan
FreezePlan ==
    /\ pc = "freeze_plan"
    /\ IF FreezePlanAbort(config, vos, regs) # ""
       THEN Abort(FreezePlanAbort(config, vos, regs))
       ELSE /\ pc' = "flash_write"
            /\ abort' = abort
    /\ UNCHANGED <<config, vos, regs, trace, ccdr>>

\* flash_setup: adjust flash wait states
FlashWrite ==
    WriteStep("flash_write", "flash_poll", "flash_acr",
              [regs EXCEPT !.acr_wrhighfreq = FlashPair(config, vos)[2],
                           !.acr_latency_req = FlashPair(config, vos)[1]])

\* mutant: the read-back loop dropped
FlashPoll_NoWait == PollStep("flash_poll", "csi_on", "flash_acr.latency", TRUE)

\* while flash.acr.read().latency().bits() != wait_states {}
FlashPoll ==
    PollStep("flash_poll", "csi_on", "flash_acr.latency",
             regs.acr_latency = FlashPair(config, vos)[1])

\* mutant: the CSI oscillator left off
CsiOn_NotSet == WriteStep("csi_on", "csi_poll", "cr.csion", regs)

\* ensure CSI is on and stable
CsiOn ==
    WriteStep("csi_on", "csi_poll", "cr.csion", [regs EXCEPT !.csion = TRUE])

\* mutant: the HSE block skipped
CsiPoll_SkipHse ==
    PollStep("csi_poll",
             IF IsSome(PllOut(config)[1]) THEN "pll1_on" ELSE "d1cfgr_write",
             "cr.csirdy", regs.csirdy)

\* mutant: the HSE switched on whether configured or not
CsiPoll_AlwaysHse ==
    PollStep("csi_poll", "hse_on", "cr.csirdy", regs.csirdy)

\* while rcc.cr.read().csirdy().is_not_ready() {}, then the match on
\* self.config.hse
CsiPoll ==
    PollStep("csi_poll",
             IF IsSome(config.hse) THEN "hse_on"
             ELSE IF IsSome(PllOut(config)[1]) THEN "pll1_on" ELSE "d1cfgr_write",
             "cr.csirdy", regs.csirdy)

\* ensure HSE is on and stable
HseOn ==
    WriteStep("hse_on", "hse_poll", "cr.hseon",
              [regs EXCEPT !.hseon = TRUE, !.hsebyp = FALSE])

\* mutant: the HSE ready loop dropped
HsePoll_NoWait ==
    PollStep("hse_poll",
             IF IsSome(PllOut(config)[1]) THEN "pll1_on" ELSE "d1cfgr_write",
             "cr.hserdy", TRUE)

\* while rcc.cr.read().hserdy().is_not_ready() {}
HsePoll ==
    PollStep("hse_poll",
             IF IsSome(PllOut(config)[1]) THEN "pll1_on" ELSE "d1cfgr_write",
             "cr.hserdy", regs.hserdy)

\* enable PLL and wait for it to stabilise
Pll1On ==
    WriteStep("pll1_on", "pll1_poll", "cr.pll1on", [regs EXCEPT !.pll1on = TRUE])

\* mutant: the PLL1 ready loop dropped
Pll1Poll_NoWait == PollStep("pll1_poll", "d1cfgr_write", "cr.pll1rdy", TRUE)

\* while rcc.cr.read().pll1rdy().is_not_ready() {}
Pll1Poll ==
    PollStep("pll1_poll", "d1cfgr_write", "cr.pll1rdy", regs.pll1rdy)

\* core prescaler / AHB prescaler / APB3 prescaler
D1cfgrWrite ==
    WriteStep("d1cfgr_write", "d1cpre_poll", "d1cfgr",
              [regs EXCEPT !.d1cpre = d1cpre_bits,
                           !.d1ppre = Ppre(config, vos, 3)[1],
                           !.hpre = Hpre(config)[1]])

D1cprePoll ==
    PollStep("d1cpre_poll", "d2cfgr_write", "d1cfgr.d1cpre",
             regs.d1cpre = d1cpre_bits)

\* APB1 / APB2 prescaler
D2cfgrWrite ==
    WriteStep("d2cfgr_write", "d3cfgr_write", "d2cfgr",
              [regs EXCEPT !.d2ppre1 = Ppre(config, vos, 1)[1],
                           !.d2ppre2 = Ppre(config, vos, 2)[1]])

\* mutant: the APB1 code written to the APB4 field
D3cfgrWrite_Apb1 ==
    WriteStep("d3cfgr_write", "d1ccipr_write", "d3cfgr",
              [regs EXCEPT !.d3ppre = Ppre(config, vos, 1)[1]])

\* APB4 prescaler
D3cfgrWrite ==
    WriteStep("d3cfgr_write", "d1ccipr_write", "d3cfgr",
              [regs EXCEPT !.d3ppre = Ppre(config, vos, 4)[1]])

\* peripheral clock (per_ck)
D1cciprWrite ==
    WriteStep("d1ccipr_write", "timpre_write", "d1ccipr",
              [regs EXCEPT !.ckpersel = per_ck_ckpersel(config)[2]])

\* set timer clocks prescaler setting
TimpreWrite ==
    WriteStep("timpre_write", "sw_write", "cfgr.timpre",
              [regs EXCEPT !.timpre = timpre])

\* mutant: the HSE arm of the match dropped
swbits_NoHse(cfg) == IF IsSome(PllOut(cfg)[1]) THEN "PLL1" ELSE "HSI"

\* select system clock source
swbits(cfg) ==
    IF IsSome(PllOut(cfg)[1]) THEN "PLL1"
    ELSE IF IsSome(cfg.hse) THEN "HSE"
    ELSE "HSI"

SwWrite ==
    WriteStep("sw_write", "sws_poll", "cfgr.sw",
              [regs EXCEPT !.sw = swbits(config)])

\* mutant: the switch status loop dropped
SwsPoll_NoWait == PollStep("sws_poll", "apb4enr_write", "cfgr.sws", TRUE)

\* while rcc.cfgr.read().sws().bits() != swbits {}
SwsPoll ==
    PollStep("sws_poll", "apb4enr_write", "cfgr.sws",
             regs.sws = swbits(config))

\* IO compensation cell: requires CSI clock and SYSCFG
Apb4enrWrite ==
    /\ pc = "apb4enr_write"
    /\ IF ~regs.csirdy
       THEN /\ Abort("csirdy")
            /\ UNCHANGED <<regs, trace>>
       ELSE /\ pc' = "cccsr_write"
            /\ regs' = [regs EXCEPT !.syscfgen = TRUE]
            /\ trace' = Append(trace, W("apb4enr"))
            /\ abort' = abort
    /\ UNCHANGED <<config, vos, ccdr>>

CccsrWrite ==
    WriteStep("cccsr_write", "cccsr_poll", "syscfg.cccsr",
              [regs EXCEPT !.cccsr_en = TRUE, !.cccsr_cs = FALSE,
                           !.cccsr_hslv = FALSE])

\* mutant: the compensation cell ready loop dropped
CccsrPoll_NoWait ==
    PollStep("cccsr_poll", "return", "syscfg.cccsr.ready", TRUE)

\* while syscfg.cccsr.read().ready().bit_is_clear() {}
CccsrPoll ==
    PollStep("cccsr_poll", "return", "syscfg.cccsr.ready", regs.cccsr_ready)

Tokens == {"ahb1", "ahb3", "ahb4", "apb1", "apb2", "apb3", "apb4", "d3ccipr"}

\* the CoreClocks record freeze builds
CoreClocks(cfg, v) ==
    [hclk |-> RccHclk(cfg),
     pclk1 |-> RccPclk(cfg, v, 1), pclk2 |-> RccPclk(cfg, v, 2),
     pclk3 |-> RccPclk(cfg, v, 3), pclk4 |-> RccPclk(cfg, v, 4),
     ppre1 |-> Ppre(cfg, v, 1)[2], ppre2 |-> Ppre(cfg, v, 2)[2],
     ppre3 |-> Ppre(cfg, v, 3)[2], ppre4 |-> Ppre(cfg, v, 4)[2],
     csi_ck |-> CSI, hsi_ck |-> HSI, per_ck |-> per_ck_ckpersel(cfg)[1],
     hse_ck |-> cfg.hse,
     pll1_p_ck |-> PllOut(cfg)[1], pll1_q_ck |-> PllOut(cfg)[2],
     pll1_r_ck |-> PllOut(cfg)[3],
     pll2_p_ck |-> None, pll2_q_ck |-> None, pll2_r_ck |-> None,
     pll3_p_ck |-> None, pll3_q_ck |-> None, pll3_r_ck |-> None,
     timx_ker_ck |-> RccTimKerCk(cfg, v, 1),
     timy_ker_ck |-> RccTimKerCk(cfg, v, 2),
     sys_ck |-> SysCk(cfg), c_ck |-> sys_d1cpre_ck(cfg)]

\* CoreClocks::aclk
Aclk(clocks) == clocks.hclk

\* mutant: the Rcc left usable after freeze
Return_Repeat ==
    /\ pc = "return"
    /\ pc' = "return"
    /\ ccdr' = Append(ccdr, [clocks |-> CoreClocks(config, vos), tokens |-> Tokens])
    /\ UNCHANGED <<config, vos, regs, trace, abort>>

\* return frozen clock configuration
Return ==
    /\ pc = "return"
    /\ pc' = "frozen"
    /\ ccdr' = Append(ccdr, [clocks |-> CoreClocks(config, vos), tokens |-> Tokens])
    /\ UNCHANGED <<config, vos, regs, trace, abort>>

-----------------------------------------------------------------------------
(* The hardware behind the polled fields *)

SourceReady(r, src) ==
    CASE src = "HSI" -> r.hsion
      [] src = "HSE" -> r.hserdy
      [] src = "PLL1" -> r.pll1rdy
      [] OTHER -> FALSE

HwFlashLatency ==
    /\ regs.acr_latency # regs.acr_latency_req
    /\ regs' = [regs EXCEPT !.acr_latency = regs.acr_latency_req]
    /\ UNCHANGED <<pc, config, vos, trace, ccdr, abort>>

HwCsiReady ==
    /\ regs.csion /\ ~regs.csirdy
    /\ regs' = [regs EXCEPT !.csirdy = TRUE]
    /\ UNCHANGED <<pc, config, vos, trace, ccdr, abort>>

HwHseReady ==
    /\ regs.hseon /\ ~regs.hserdy
    /\ regs' = [regs EXCEPT !.hserdy = TRUE]
    /\ UNCHANGED <<pc, config, vos, trace, ccdr, abort>>

HwPll1Ready ==
    /\ regs.pll1on /\ ~regs.pll1rdy
    /\ SourceReady(regs, regs.pllsrc)
    /\ regs' = [regs EXCEPT !.pll1rdy = TRUE]
    /\ UNCHANGED <<pc, config, vos, trace, ccdr, abort>>

HwSwitch ==
    /\ regs.sws # regs.sw
    /\ SourceReady(regs, regs.sw)
    /\ regs' = [regs EXCEPT !.sws = regs.sw]
    /\ UNCHANGED <<pc, config, vos, trace, ccdr, abort>>

HwCccsrReady ==
    /\ regs.cccsr_en /\ ~regs.cccsr_ready
    /\ regs.csirdy /\ regs.syscfgen
    /\ regs' = [regs EXCEPT !.cccsr_ready = TRUE]
    /\ UNCHANGED <<pc, config, vos, trace, ccdr, abort>>

-----------------------------------------------------------------------------

Next ==
    \/ use_hse \/ sys_ck \/ sysclk \/ per_ck \/ hclk
    \/ pclk1 \/ pclk2 \/ pclk3 \/ pclk4
    \/ PllSetupPlan \/ PllWritePllckselr \/ PllWritePll1divr \/ PllWritePllcfgr
    \/ FreezePlan \/ FlashWrite \/ FlashPoll
    \/ CsiOn \/ CsiPoll \/ HseOn \/ HsePoll \/ Pll1On \/ Pll1Poll
    \/ D1cfgrWrite \/ D1cprePoll \/ D2cfgrWrite \/ D3cfgrWrite
    \/ D1cciprWrite \/ TimpreWrite \/ SwWrite \/ SwsPoll
    \/ Apb4enrWrite \/ CccsrWrite \/ CccsrPoll \/ Return
    \/ HwFlashLatency \/ HwCsiReady \/ HwHseReady \/ HwPll1Ready
    \/ HwSwitch \/ HwCccsrReady

Spec == Init /\ [][Next]_vars

\* pll_setup alone, over the sweep of sources and targets
InitPll ==
    /\ pc = "builder"
    /\ \E src \in PllSources \cup {None}, tgt \in PllTargets :
           config = [EmptyConfig EXCEPT !.hse = src, !.sys_ck = tgt]
    /\ vos = "unset"
    /\ regs = ResetRegs
    /\ trace = <<>>
    /\ ccdr = <<>>
    /\ abort = ""

NextPll ==
    \/ PllSetupPlan \/ PllWritePllckselr \/ PllWritePll1divr \/ PllWritePllcfgr

SpecPll == InitPll /\ [][NextPll]_vars

\* the steps of freeze, from the call to the return
FreezeStep ==
    \/ PllSetupPlan \/ PllWritePllckselr \/ PllWritePll1divr \/ PllWritePllcfgr
    \/ FreezePlan \/ FlashWrite \/ FlashPoll
    \/ CsiOn \/ CsiPoll \/ HseOn \/ HsePoll \/ Pll1On \/ Pll1Poll
    \/ D1cfgrWrite \/ D1cprePoll \/ D2cfgrWrite \/ D3cfgrWrite
    \/ D1cciprWrite \/ TimpreWrite \/ SwWrite \/ SwsPoll
    \/ Apb4enrWrite \/ CccsrWrite \/ CccsrPoll \/ Return

\* the processor keeps executing freeze, and every flag the hardware is
\* about to set is eventually set
Fairness ==
    /\ WF_vars(FreezeStep)
    /\ WF_vars(HwFlashLatency)
    /\ WF_vars(HwCsiReady)
    /\ WF_vars(HwHseReady)
    /\ WF_vars(HwPll1Ready)
    /\ WF_vars(HwSwitch)
    /\ WF_vars(HwCccsrReady)

\* freeze called on the requests the builder can hand over
InitFair ==
    /\ pc = "builder"
    /\ \E h \in HseVals \cup {None}, s \in SysVals \cup {None} :
           config = [EmptyConfig EXCEPT !.hse = h, !.sys_ck = s]
    /\ vos = "unset"
    /\ regs = ResetRegs
    /\ trace = <<>>
    /\ ccdr = <<>>
    /\ abort = ""

NextFair ==
    \/ FreezeStep
    \/ HwFlashLatency \/ HwCsiReady \/ HwHseReady \/ HwPll1Ready
    \/ HwSwitch \/ HwCccsrReady

SpecFair == InitFair /\ [][NextFair]_vars /\ Fairness

\* freeze called on the requests that tell the arms of the per_ck match
\* apart: the request absent, equal to the HSE, equal to the CSI, both, or
\* neither
PerHse == {None, 4000000, 8000000}
PerReq == {None, 4000000, 8000000, 25000000}
PerSys == {None, 100000000}

InitPer ==
    /\ pc = "builder"
    /\ \E h \in PerHse, p \in PerReq, s \in PerSys :
           config = [EmptyConfig EXCEPT !.hse = h, !.per_ck = p, !.sys_ck = s]
    /\ vos = "unset"
    /\ regs = ResetRegs
    /\ trace = <<>>
    /\ ccdr = <<>>
    /\ abort = ""

SpecPer == InitPer /\ [][NextFair]_vars

\* flash_setup alone, over a sweep of its two arguments: 0 to 250 MHz in
\* steps of 0.5 MHz and 480 MHz, at every voltage scale
MaxFlashStep == 500
FlashFreqs == {500000 * k : k \in 0..MaxFlashStep} \cup {480000000}

InitFlash ==
    /\ pc = "flash_write"
    /\ \E f \in FlashFreqs : config = [EmptyConfig EXCEPT !.hse = f]
    /\ vos \in Scales
    /\ regs = ResetRegs
    /\ trace = <<>>
    /\ ccdr = <<>>
    /\ abort = ""

NextFlash == FlashWrite \/ FlashPoll \/ HwFlashLatency

SpecFlash == InitFlash /\ [][NextFlash]_vars

\* the bus divider plan alone, over a sweep of hclk and pclk requests
MaxDivStep == 64
DivTargets ==
    {500000 * k : k \in 1..MaxDivStep} \cup {100000, 250000, 64000000}

InitDiv ==
    /\ pc = "builder"
    /\ \E h \in HseVals \cup {None}, a \in DivTargets \cup {None},
          b \in DivTargets \cup {None} :
           config = [EmptyConfig EXCEPT !.hse = h, !.rcc_hclk = a,
                                        !.rcc_pclk1 = b, !.rcc_pclk2 = b,
                                        !.rcc_pclk3 = b, !.rcc_pclk4 = b]
    /\ vos = "unset"
    /\ regs = ResetRegs
    /\ trace = <<>>
    /\ ccdr = <<>>
    /\ abort = ""

NextDiv == PllSetupPlan \/ FreezePlan

SpecDiv == InitDiv /\ [][NextDiv]_vars

\* the mark between two runs, holding the registers the first run left
RunMark(r) == [op |-> "run", regs |-> r]

\* pll_setup and freeze run a second time on the same request and voltage
\* scale, on the registers as the first run left them
Rerun ==
    /\ pc = "frozen"
    /\ Len(ccdr) = 1
    /\ pc' = IF PllEngaged(config) THEN "pll_pllckselr" ELSE "freeze_plan"
    /\ trace' = Append(trace, RunMark(regs))
    /\ UNCHANGED <<config, vos, regs, ccdr, abort>>

NextTwice == NextFair \/ Rerun

SpecTwice == InitFair /\ [][NextTwice]_vars

-----------------------------------------------------------------------------
(* Peripheral drivers after the freeze: the SPI constructor *)

MaxSpi == 2
SpiFreqs == {0, 1000000, 500000000}

\* the enable register of each instance, and the bus it belongs to
SpiEnr(x) ==
    CASE x \in {"SPI1", "SPI4", "SPI5"} -> "apb2enr"
      [] x \in {"SPI2", "SPI3"} -> "apb1lenr"
      [] OTHER -> "apb4enr"

\* a write to an enable register by code that holds the tokens `holds`
\* by exclusive reference
EnrWrite(x, holds) ==
    [op |-> "w", reg |-> SpiEnr(x), field |-> x, holds |-> holds]

\* a write to a register of the SPI block itself
SpiW(x, reg) == [op |-> "w", reg |-> reg, spi |-> x]

\* mutant: SPI1, SPI2 and SPI3 clocked from the bus like SPI4 and SPI5
kernel_clk_Apb(x, c, r) ==
    IF x \in {"SPI1", "SPI2", "SPI3", "SPI4", "SPI5"}
    THEN c.clocks.pclk2
    ELSE c.clocks.pclk4

\* Spi::kernel_clk: the kernel clock currently selected, read through ccdr.rb
kernel_clk(x, c, r) ==
    IF x \in {"SPI1", "SPI2", "SPI3"}
    THEN CASE r.spi123sel = "PLL1_Q" -> c.clocks.pll1_q_ck
           [] r.spi123sel = "PLL2_P" -> c.clocks.pll2_p_ck
           [] r.spi123sel = "PLL3_P" -> c.clocks.pll3_p_ck
           [] OTHER -> c.clocks.per_ck
    ELSE IF x \in {"SPI4", "SPI5"}
    THEN CASE r.spi45sel = "APB" -> c.clocks.pclk2
           [] r.spi45sel = "PLL2_Q" -> c.clocks.pll2_q_ck
           [] r.spi45sel = "PLL3_Q" -> c.clocks.pll3_q_ck
           [] r.spi45sel = "HSI_KER" -> c.clocks.hsi_ck
           [] r.spi45sel = "CSI_KER" -> c.clocks.csi_ck
           [] OTHER -> c.clocks.hse_ck
    ELSE CASE r.spi6sel = "RCC_PCLK4" -> c.clocks.pclk4
           [] r.spi6sel = "PLL2_Q" -> c.clocks.pll2_q_ck
           [] r.spi6sel = "PLL3_Q" -> c.clocks.pll3_q_ck
           [] r.spi6sel = "HSI_KER" -> c.clocks.hsi_ck
           [] r.spi6sel = "CSI_KER" -> c.clocks.csi_ck
           [] OTHER -> c.clocks.hse_ck

\* the master baud rate divider for spi_ker_ck / spi_freq
mbr(q) ==
    CASE q \in 1..2 -> "DIV2" [] q \in 3..5 -> "DIV4" [] q \in 6..11 -> "DIV8"
      [] q \in 12..23 -> "DIV16" [] q \in 24..47 -> "DIV32"
      [] q \in 48..95 -> "DIV64" [] q \in 96..191 -> "DIV128"
      [] OTHER -> "DIV256"

\* the SPI constructors so far
SpiCount == Cardinality({x \in SpiNames : regs.spien[x]})

\* Spi::spiX(spi, pins, mode, freq, ccdr: &Ccdr): the SPIX singleton is
\* moved in, so each instance is constructed once
SpiNew(x, freq) ==
    /\ pc = "frozen"
    /\ Pos(trace, EnrWrite(x, {})) = 0
    /\ SpiCount < MaxSpi
    /\ LET ker == kernel_clk(x, ccdr[1], regs)
           en == [regs EXCEPT !.spien[x] = TRUE]
           head == <<EnrWrite(x, {}), SpiW(x, "cfg2")>>
       IN  IF ~IsSome(ker)
           THEN /\ regs' = en
                /\ trace' = trace \o head
                /\ Abort("spi_kernel_clk")
           ELSE IF freq = 0
           THEN /\ regs' = en
                /\ trace' = trace \o head
                /\ Abort("spi_divide_by_zero")
           ELSE IF ker \div freq = 0
           THEN /\ regs' = en
                /\ trace' = trace \o head
                /\ Abort("spi_mbr")
           ELSE /\ regs' = [en EXCEPT !.spimbr[x] = mbr(ker \div freq),
                                      !.spispe[x] = TRUE]
                /\ trace' = trace \o head
                       \o <<SpiW(x, "cfg1"), SpiW(x, "cr1"), SpiW(x, "cfg2"),
                            SpiW(x, "cr1")>>
                /\ UNCHANGED <<pc, abort>>
    /\ UNCHANGED <<config, vos, ccdr>>

NextPeriph ==
    \/ NextFair
    \/ \E x \in SpiNames, freq \in SpiFreqs : SpiNew(x, freq)

SpecPeriph == InitFair /\ [][NextPeriph]_vars

-----------------------------------------------------------------------------
(* FullDuplex<u8> for Spi: read and send on a constructed SPI *)

\* at most MaxOps calls of read and send
MaxOps == 2

RxBytes == {90, 165}
TxBytes == {60}

\* the status register and the data registers of the SPI block once the
\* constructor has enabled the bus: the transmit FIFO has space, nothing
\* is received and no error is flagged
SpiResetRegs ==
    [ovr |-> FALSE, modf |-> FALSE, crce |-> FALSE, rxp |-> FALSE,
     txp |-> TRUE, rxdr |-> 0, txdr |-> None, cstart |-> FALSE]

InitSpi ==
    /\ pc = "spi"
    /\ config = EmptyConfig
    /\ vos = "unset"
    /\ regs = SpiResetRegs
    /\ trace = <<>>
    /\ ccdr = <<>>
    /\ abort = ""

\* mutant: the mode fault tested before the overrun
SrError_ModfFirst(sr) ==
    IF sr.modf THEN "ModeFault"
    ELSE IF sr.ovr THEN "Overrun"
    ELSE IF sr.crce THEN "Crc"
    ELSE ""

\* the error the if-chain on sr reports, "" when no error flag is set
SrError(sr) ==
    IF sr.ovr THEN "Overrun"
    ELSE IF sr.modf THEN "ModeFault"
    ELSE IF sr.crce THEN "Crc"
    ELSE ""

\* the value a call returned
Ret(op, res, data) == [op |-> op, res |-> res, data |-> data]

\* fn read(&mut self) -> nb::Result<u8, Error>; the read of RXDR takes the
\* byte out of the receive FIFO, which may hold another one
read ==
    /\ pc = "spi"
    /\ Len(trace) < MaxOps
    /\ LET sr == regs
       IN  IF SrError(sr) # ""
           THEN /\ trace' = Append(trace, Ret("read", SrError(sr), None))
                /\ regs' = regs
           ELSE IF sr.rxp
           THEN /\ trace' = Append(trace, Ret("read", "Ok", regs.rxdr))
                /\ \/ regs' = [regs EXCEPT !.rxp = FALSE]
                   \/ \E b \in RxBytes : regs' = [regs EXCEPT !.rxdr = b]
           ELSE /\ trace' = Append(trace, Ret("read", "WouldBlock", None))
                /\ regs' = regs
    /\ UNCHANGED <<pc, config, vos, ccdr, abort>>

\* fn send(&mut self, byte: u8) -> nb::Result<(), Error>
send(byte) ==
    /\ pc = "spi"
    /\ Len(trace) < MaxOps
    /\ LET sr == regs
       IN  IF SrError(sr) # ""
           THEN /\ trace' = Append(trace, Ret("send", SrError(sr), None))
                /\ regs' = regs
           ELSE IF sr.txp
           THEN /\ trace' = Append(trace, Ret("send", "Ok", None))
                /\ regs' = [regs EXCEPT !.txdr = byte, !.cstart = TRUE]
           ELSE /\ trace' = Append(trace, Ret("send", "WouldBlock", None))
                /\ regs' = regs
    /\ UNCHANGED <<pc, config, vos, ccdr, abort>>

\* the peripheral sets a status flag: a byte received, an overrun, a mode
\* fault, a CRC error; the transmit FIFO fills up and drains
HwSpiRxp ==
    /\ pc = "spi" /\ ~regs.rxp
    /\ \E b \in RxBytes : regs' = [regs EXCEPT !.rxp = TRUE, !.rxdr = b]
    /\ UNCHANGED <<pc, config, vos, trace, ccdr, abort>>

HwSpiError ==
    /\ pc = "spi"
    /\ \E f \in {"ovr", "modf", "crce"} :
           ~regs[f] /\ regs' = [regs EXCEPT ![f] = TRUE]
    /\ UNCHANGED <<pc, config, vos, trace, ccdr, abort>>

HwSpiTxp ==
    /\ pc = "spi"
    /\ regs' = [regs EXCEPT !.txp = ~regs.txp]
    /\ UNCHANGED <<pc, config, vos, trace, ccdr, abort>>

NextSpi ==
    \/ read
    \/ \E b \in TxBytes : send(b)
    \/ HwSpiRxp \/ HwSpiError \/ HwSpiTxp

SpecSpi == InitSpi /\ [][NextSpi]_vars

-----------------------------------------------------------------------------
(* Sai<SAI1, I2S>: enable and disable *)

\* at most MaxSaiCalls calls of enable and disable
MaxSaiCalls == 5

\* Option<SaiChannel>::None
NoChannel == "None"

\* the Sai values of the two constructors: i2s_sai1_ch_a (master A, slave
\* B) and i2s_sai1_ch_b (master B, no slave)
SaiValues ==
    {[master_channel |-> "ChannelA", slave_channel |-> "ChannelB"],
     [master_channel |-> "ChannelB", slave_channel |-> NoChannel]}

\* SAIEN of the two audio blocks after the constructor: neither
\* constructor writes it
SaiResetRegs == [ChannelA |-> FALSE, ChannelB |-> FALSE]

InitSai ==
    /\ pc = "sai"
    /\ config \in SaiValues
    /\ vos = "unset"
    /\ regs = SaiResetRegs
    /\ trace = <<>>
    /\ ccdr = <<>>
    /\ abort = ""

\* a call of enable or disable, and rb.chX.cr1.modify(|_, w| w.saien()..)
SaiCall(f) == [op |-> "call", fn |-> f]
SaiW(ch, en) == [op |-> "w", reg |-> ch, saien |-> en]

SaiCalls == Cardinality({i \in 1..Len(trace) : trace[i].op = "call"})

\* mutant: the master channel enabled first
EnableFirst_Master(s) == s.master_channel

\* the channel enable() writes first: the slave first, "recommended" per
\* ref doc
EnableFirst(s) ==
    IF s.slave_channel # NoChannel THEN s.slave_channel ELSE s.master_channel

\* pub fn enable(&mut self), up to its first write
enable ==
    /\ pc = "sai"
    /\ SaiCalls < MaxSaiCalls
    /\ regs' = [regs EXCEPT ![EnableFirst(config)] = TRUE]
    /\ trace' = trace \o <<SaiCall("enable"), SaiW(EnableFirst(config), TRUE)>>
    /\ pc' = IF config.slave_channel # NoChannel THEN "enable_master" ELSE "sai"
    /\ UNCHANGED <<config, vos, ccdr, abort>>

\* enable(): match self.master_channel, after the slave
enable_master ==
    /\ pc = "enable_master"
    /\ regs' = [regs EXCEPT ![config.master_channel] = TRUE]
    /\ trace' = Append(trace, SaiW(config.master_channel, TRUE))
    /\ pc' = "sai"
    /\ UNCHANGED <<config, vos, ccdr, abort>>

\* pub fn disable(&mut self), up to its first write: master must be
\* disabled first
disable ==
    /\ pc = "sai"
    /\ SaiCalls < MaxSaiCalls
    /\ regs' = [regs EXCEPT ![config.master_channel] = FALSE]
    /\ trace' = trace
           \o <<SaiCall("disable"), SaiW(config.master_channel, FALSE)>>
    /\ pc' = IF config.slave_channel # NoChannel THEN "disable_slave" ELSE "sai"
    /\ UNCHANGED <<config, vos, ccdr, abort>>

\* disable(): if let Some(slave_channel), after the master
disable_slave ==
    /\ pc = "disable_slave"
    /\ regs' = [regs EXCEPT ![config.slave_channel] = FALSE]
    /\ trace' = Append(trace, SaiW(config.slave_channel, FALSE))
    /\ pc' = "sai"
    /\ UNCHANGED <<config, vos, ccdr, abort>>

NextSai == enable \/ enable_master \/ disable \/ disable_slave

SpecSai == InitSai /\ [][NextSai]_vars

-----------------------------------------------------------------------------
(* Properties *)

Returned == Len(ccdr) > 0
Clocks == ccdr[1].clocks
FreezeCalled == pc # "builder"
Has(e) == Pos(trace, e) > 0
Before(e1, e2) == Has(e1) /\ Has(e2) /\ Pos(trace, e1) < Pos(trace, e2)

PllRegs == {"pllckselr", "pll1divr", "pllcfgr"}

\* the assertions that reject an infeasible request
InfeasibleAborts ==
    {"srcclk", "pll1_m", "ref1_ck", "pll1_p", "vco_min", "vco_max",
     "pll1_n_min", "pll1_n_max", "sys_d1cpre_ck_max", "rcc_hclk_req",
     "rcc_hclk_max", "rcc_pclk1", "rcc_pclk2", "rcc_pclk3", "rcc_pclk4"}

CoreCeiling ==
    CASE vos = "Scale0" -> 480000000 [] vos = "Scale1" -> 400000000
      [] vos = "Scale2" -> 300000000 [] OTHER -> 200000000
AhbCeiling ==
    CASE vos = "Scale0" -> 240000000 [] vos = "Scale1" -> 200000000
      [] vos = "Scale2" -> 150000000 [] OTHER -> 100000000
ApbCeiling ==
    CASE vos = "Scale0" -> 120000000 [] vos = "Scale1" -> 100000000
      [] vos = "Scale2" -> 75000000 [] OTHER -> 50000000

\* C1: every Ccdr that freeze returns reports clocks within the ceilings of
\* the voltage scale: c_ck <= core ceiling, hclk <= AHB ceiling and
\* pclk1..pclk4 <= APB ceiling.
C1_ReturnedClocksWithinCeilings ==
    Returned =>
        /\ Clocks.c_ck <= CoreCeiling
        /\ Clocks.hclk <= AhbCeiling
        /\ Clocks.pclk1 <= ApbCeiling
        /\ Clocks.pclk2 <= ApbCeiling
        /\ Clocks.pclk3 <= ApbCeiling
        /\ Clocks.pclk4 <= ApbCeiling

\* a freeze at Scale1 returned with the core, AHB and APB1 clocks at their ceilings
C1_Witness ==
    /\ Returned
    /\ vos = "Scale1"
    /\ Clocks.c_ck = 400000000
    /\ Clocks.hclk = 200000000
    /\ Clocks.pclk1 = 100000000

\* C2: once pll_setup has planned and programmed PLL1, the programmed plan
\* has M in [1, 63], source / M in [1 MHz, 2 MHz], P in [1, 128], N in
\* [4, 512] and the VCO frequency (source / M) * N in [150 MHz, 420 MHz].
C2_PllPlanInRange ==
    Has(W("pllcfgr")) =>
        LET src == IF config.hse = None THEN 64000000 ELSE config.hse
            m == regs.divm1
            p == regs.divp1 + 1
            n == regs.divn1 + 1
        IN  /\ m >= 1 /\ m <= 63
            /\ src \div m >= 1000000 /\ src \div m <= 2000000
            /\ p >= 1 /\ p <= 128
            /\ n >= 4 /\ n <= 512
            /\ (src \div m) * n >= 150000000
            /\ (src \div m) * n <= 420000000

\* PLL1 programmed from a 24.75 MHz HSE for 420 MHz: M = 13, P = 1 and
\* N = 220, a VCO of 418.8 MHz by the truncation of N
C2_Witness ==
    /\ Has(W("pllcfgr"))
    /\ config.hse = 24750000
    /\ config.sys_ck = 420000000
    /\ regs.divm1 = 13
    /\ regs.divp1 = 0
    /\ regs.divn1 + 1 = 220

\* C3: when freeze aborts on an infeasible request, no register has been
\* written.
C3_AbortBeforeAnyWrite ==
    (pc = "aborted" /\ abort \in InfeasibleAborts) => Writes(trace) = <<>>

\* some bus target is above the ceiling of the voltage scale
BusTargetAboveCeiling ==
    \/ config.rcc_hclk > AhbCeiling
    \/ \E n \in 1..4 : PclkReq(config, n) > ApbCeiling

\* C4 as stated: a request with a bus target above its ceiling never
\* returns a Ccdr.
C4_Original ==
    (FreezeCalled /\ BusTargetAboveCeiling) => ~Returned

PclkOf(clocks, n) ==
    CASE n = 1 -> clocks.pclk1 [] n = 2 -> clocks.pclk2
      [] n = 3 -> clocks.pclk3 [] n = 4 -> clocks.pclk4

\* C4: an hclk request above the AHB ceiling aborts freeze: nothing after
\* the planning is executed and no Ccdr is returned.  A pclkN request above
\* the APB ceiling aborts only when the resulting pclkN is above the
\* ceiling: a Ccdr returned for such a request reports pclkN at or below the
\* ceiling, and an abort at the pclkN check has hclk / ppreN above it.
C4_BusTargetAboveCeiling ==
    /\ (FreezeCalled /\ config.rcc_hclk > AhbCeiling) =>
           /\ ~Returned
           /\ ~Has(W("flash_acr"))
           /\ pc \in {"pll_pllckselr", "pll_pll1divr", "pll_pllcfgr",
                      "freeze_plan", "aborted"}
    /\ \A n \in 1..4 :
           (FreezeCalled /\ PclkReq(config, n) > ApbCeiling) =>
               /\ Returned => PclkOf(Clocks, n) <= ApbCeiling
               /\ (pc = "aborted" /\ abort = <<"rcc_pclk1", "rcc_pclk2",
                                              "rcc_pclk3", "rcc_pclk4">>[n]) =>
                      RccHclk(config) \div Ppre(config, vos, n)[2] > ApbCeiling

\* a Ccdr returned at Scale0 although pclk1 = 200 MHz was requested
C4_Witness ==
    /\ Returned
    /\ vos = "Scale0"
    /\ config.rcc_pclk1 = 200000000
    /\ Clocks.pclk1 = 32000000

\* the source and the requested system frequency of the request
SourceFreq == IF config.hse = None THEN 64000000 ELSE config.hse
RequestedFreq == IF config.sys_ck = None THEN SourceFreq ELSE config.sys_ck

NoPllPlan ==
    /\ \A r \in PllRegs : ~Has(W(r))
    /\ Returned =>
           /\ Clocks.pll1_p_ck = None
           /\ Clocks.pll1_q_ck = None
           /\ Clocks.pll1_r_ck = None
           /\ Clocks.sys_ck = SourceFreq

\* C5 as stated: a requested system frequency at or below the source
\* produces no PLL plan.
C5_Original ==
    (FreezeCalled /\ RequestedFreq <= SourceFreq) => NoPllPlan

\* C5: a requested system frequency equal to the source produces no PLL
\* plan: no PLL register is written, the PLL outputs are None and sys_ck is
\* the source frequency.
C5_NoPllWhenTargetIsSource ==
    (FreezeCalled /\ RequestedFreq = SourceFreq) => NoPllPlan

\* freeze returned for sys_ck(8 MHz) on an 8 MHz HSE
C5_Witness ==
    /\ Returned
    /\ config.hse = 8000000
    /\ config.sys_ck = 8000000
    /\ Clocks.sys_ck = 8000000

\* C6: with the requested system frequency equal to the source, or none
\* requested, PLL1 is never enabled, the switch selects the direct source,
\* sys_ck and c_ck are the source frequency and the PLL1 outputs are None.
C6_Bypass ==
    (FreezeCalled /\ (config.sys_ck = None \/ config.sys_ck = SourceFreq)) =>
        /\ ~regs.pll1on
        /\ ~Has(W("cr.pll1on"))
        /\ regs.sw \in {"HSI", IF config.hse = None THEN "HSI" ELSE "HSE"}
        /\ Has(W("cfgr.sw")) =>
               regs.sw = IF config.hse = None THEN "HSI" ELSE "HSE"
        /\ Has(R("cfgr.sws")) => regs.sws = regs.sw
        /\ Returned =>
               /\ Clocks.sys_ck = SourceFreq
               /\ Clocks.c_ck = SourceFreq
               /\ Clocks.pll1_p_ck = None
               /\ Clocks.pll1_q_ck = None
               /\ Clocks.pll1_r_ck = None

\* freeze returned on the HSE without a system frequency request
C6_Witness ==
    /\ Returned
    /\ config.hse = 25000000
    /\ config.sys_ck = None
    /\ regs.sws = "HSE"
    /\ Clocks.c_ck = 25000000

\* C7: the flash wait-state write and the read-back of the latency field
\* come before PLL1 is enabled and before the system clock switch is
\* written, and no flash wait-state write comes after the switch.
C7_FlashBeforeClockRaise ==
    /\ \A e \in {W("cr.pll1on"), W("cfgr.sw")} :
           Has(e) =>
               /\ Before(W("flash_acr"), e)
               /\ Before(R("flash_acr.latency"), e)
               /\ Before(W("flash_acr"), R("flash_acr.latency"))
    /\ (regs.pll1on \/ regs.sw # "HSI") =>
           /\ Has(W("flash_acr"))
           /\ regs.acr_latency = regs.acr_latency_req
    /\ \A i \in 1..Len(trace) :
           trace[i] = W("flash_acr") => ~(Has(W("cfgr.sw")) /\ Pos(trace, W("cfgr.sw")) < i)
    /\ Count(trace, W("flash_acr")) <= 1

\* the switch to PLL1 written with one wait state in effect
C7_Witness ==
    /\ regs.sw = "PLL1"
    /\ regs.pll1on
    /\ regs.acr_latency = 1
    /\ Has(W("cfgr.sw"))

\* C8: the pair written to the flash controller is the table entry of the
\* voltage scale for the AXI clock that CoreClocks::aclk() reports.
C8_FlashPairForAclk ==
    Returned =>
        <<regs.acr_latency_req, regs.acr_wrhighfreq>>
            = FlashTable(Aclk(Clocks) \div 1000000, vos)

\* the register accesses of freeze that mark its phases
PhaseEvents ==
    {W("cr.csion"), R("cr.csirdy"), W("cr.hseon"), R("cr.hserdy"),
     W("cr.pll1on"), R("cr.pll1rdy"), W("d1cfgr"), R("d1cfgr.d1cpre"),
     W("d2cfgr"), W("d3cfgr"), W("cfgr.sw"), R("cfgr.sws"),
     W("syscfg.cccsr"), R("syscfg.cccsr.ready")}

\* the phases in the order of the sequence, for the request at hand
ExpectedPhases ==
    <<W("cr.csion"), R("cr.csirdy")>>
    \o (IF config.hse # None THEN <<W("cr.hseon"), R("cr.hserdy")>> ELSE <<>>)
    \o (IF RequestedFreq # SourceFreq
        THEN <<W("cr.pll1on"), R("cr.pll1rdy")>> ELSE <<>>)
    \o <<W("d1cfgr"), R("d1cfgr.d1cpre"), W("d2cfgr"), W("d3cfgr"),
         W("cfgr.sw"), R("cfgr.sws"), W("syscfg.cccsr"),
         R("syscfg.cccsr.ready")>>

IsPrefix(s, t) == Len(s) <= Len(t) /\ SubSeq(t, 1, Len(s)) = s

\* C9: freeze passes through its phases in the fixed order (sources stable,
\* PLL locked when engaged, prescalers programmed, switched, compensation
\* cell ready, frozen), each at most once and none revisited; a Ccdr is
\* returned only after all of them.
C9_PhaseOrder ==
    LET seen == SelectSeq(trace, LAMBDA e : e \in PhaseEvents)
    IN  /\ IsPrefix(seen, ExpectedPhases)
        /\ Returned => seen = ExpectedPhases
        /\ Len(ccdr) <= 1

\* frozen after the HSE and the PLL phases
C9_Witness ==
    /\ pc = "frozen"
    /\ Returned
    /\ Before(R("cr.hserdy"), W("cr.pll1on"))
    /\ Before(R("cr.pll1rdy"), W("d1cfgr"))
    /\ Before(R("cfgr.sws"), W("syscfg.cccsr"))

\* C10: the PLL registers are programmed after the flash wait states and
\* after the clock sources are on and ready, and PLLCFGR immediately before
\* PLL1 is enabled.
C10_PllProgrammedInStep4 ==
    /\ \A r \in PllRegs :
           Has(W(r)) =>
               /\ Before(R("flash_acr.latency"), W(r))
               /\ Before(R("cr.csirdy"), W(r))
               /\ config.hse # None => Before(R("cr.hserdy"), W(r))
    /\ Has(W("cr.pll1on")) =>
           Pos(trace, W("pllcfgr")) = Pos(trace, W("cr.pll1on")) - 1

\* C11: the system clock switch is written only when the selected source is
\* ready and the core prescaler is confirmed: PLL1 selected means pll1rdy
\* was read ready (and, with HSE feeding the PLL, hserdy was read ready
\* before PLL1 was enabled); HSE selected means hserdy was read ready; and
\* D1CPRE was read back equal to the value written.
C11_SwitchOnlyWhenReady ==
    Has(W("cfgr.sw")) =>
        /\ regs.sw = "PLL1" =>
               /\ regs.pll1rdy
               /\ Before(W("cr.pll1on"), R("cr.pll1rdy"))
               /\ Before(R("cr.pll1rdy"), W("cfgr.sw"))
               /\ regs.pllsrc = "HSE" =>
                      /\ regs.hserdy
                      /\ Before(R("cr.hserdy"), W("cr.pll1on"))
        /\ regs.sw = "HSE" =>
               /\ regs.hserdy
               /\ Before(R("cr.hserdy"), W("cfgr.sw"))
        /\ Before(W("d1cfgr"), R("d1cfgr.d1cpre"))
        /\ Before(R("d1cfgr.d1cpre"), W("cfgr.sw"))
        /\ regs.d1cpre = d1cpre_bits

\* the switch to PLL1 written with the PLL fed by HSE
C11_Witness ==
    /\ Has(W("cfgr.sw"))
    /\ regs.sw = "PLL1"
    /\ regs.pllsrc = "HSE"
    /\ pc = "sws_poll"

\* the steps of freeze that follow the switch
AfterSwitch == {W("apb4enr"), W("syscfg.cccsr")}

\* C12: the source written to the switch is PLL1 exactly when pll_setup
\* produced a plan, otherwise HSE when an external source was configured
\* and HSI when not; no later step (compensation cell, return) happens
\* before the switch status reads back the value written.
C12_SwitchSourceAndStatus ==
    /\ Has(W("cfgr.sw")) =>
           /\ regs.sw = "PLL1" <=> Has(W("pllcfgr"))
           /\ ~Has(W("pllcfgr")) =>
                  regs.sw = IF config.hse # None THEN "HSE" ELSE "HSI"
    /\ ((\E e \in AfterSwitch : Has(e)) \/ Returned
            \/ pc \in {"apb4enr_write", "cccsr_write", "cccsr_poll", "return"}) =>
           /\ Before(W("cfgr.sw"), R("cfgr.sws"))
           /\ regs.sws = regs.sw
           /\ \A e \in AfterSwitch : Has(e) => Before(R("cfgr.sws"), e)

\* the compensation cell enabled after the switch to HSE was confirmed
C12_Witness ==
    /\ Has(W("syscfg.cccsr"))
    /\ regs.sw = "HSE"
    /\ regs.sws = "HSE"
    /\ ~Has(W("pllcfgr"))

\* C13: a Ccdr exists only once every step is complete: when freeze has
\* returned, the flash latency equals the selected wait states, CSI is
\* ready, HSE is ready if configured, PLL1 is ready if engaged, the switch
\* status equals the selected source and the compensation cell is ready;
\* an execution that aborted or waits in a poll loop has produced no Ccdr.
C13_CcdrOnlyWhenComplete ==
    /\ Returned =>
           /\ pc = "frozen"
           /\ regs.acr_latency = FlashPair(config, vos)[1]
           /\ regs.csirdy
           /\ config.hse # None => regs.hserdy
           /\ Has(W("pllcfgr")) => regs.pll1on /\ regs.pll1rdy
           /\ regs.sws = regs.sw
           /\ regs.sw = swbits(config)
           /\ regs.cccsr_en /\ regs.cccsr_ready
    /\ pc # "frozen" => ~Returned
    /\ abort # "" => ~Returned /\ pc = "aborted"

\* a Ccdr returned with HSE and PLL1 both in use
C13_Witness ==
    /\ Returned
    /\ config.hse # None
    /\ regs.sw = "PLL1"
    /\ regs.cccsr_ready

\* the HSE ready loop with the flag still clear
InHseWait == pc = "hse_poll" /\ ~regs.hserdy

\* C14: with an external oscillator configured whose ready flag is not
\* set, freeze neither returns nor aborts: it stays in the HSE ready poll
\* (no step leaves the loop while the flag is clear), PLL1 is not enabled
\* and the system clock source is not switched.
C14_HseNeverReadyHangs ==
    /\ [](config.hse # None /\ ~regs.hserdy =>
              /\ ~regs.pll1on
              /\ ~Has(W("cr.pll1on"))
              /\ ~Has(W("cfgr.sw"))
              /\ regs.sw = "HSI"
              /\ ~Returned
              /\ Has(W("cr.hseon")) => pc = "hse_poll" /\ abort = "")
    /\ [][InHseWait => pc' = "hse_poll" /\ abort' = "" /\ ccdr' = <<>>]_vars

\* waiting for HSE with a PLL plan written and PLL1 still off
C14_Witness ==
    /\ InHseWait
    /\ regs.hseon
    /\ Has(W("pllcfgr"))
    /\ ~regs.pll1on

\* the busy-wait loops of freeze
PollPcs ==
    {"flash_poll", "csi_poll", "hse_poll", "pll1_poll", "d1cpre_poll",
     "sws_poll", "cccsr_poll"}

\* C15: with every polled flag eventually reading the awaited value, a
\* freeze whose planning assertions hold eventually returns a Ccdr; and
\* whenever freeze can take no step it has returned, has aborted, or is
\* waiting in one of its poll loops.
C15_FreezeTerminates ==
    /\ (pc = "flash_write") ~> Returned
    /\ [](FreezeCalled /\ ~ENABLED FreezeStep =>
              pc \in PollPcs \cup {"frozen", "aborted"})
    /\ [](pc \in PollPcs => abort = "" /\ ~Returned)

\* freeze past its planning assertions, with the HSE and the PLL to wait for
C15_Witness ==
    /\ pc = "flash_write"
    /\ config.hse # None
    /\ Has(W("pllcfgr"))

\* the Ccdr values that hold token t
Holders(t) == {i \in 1..Len(ccdr) : t \in ccdr[i].tokens}

\* a call on the Rcc: a builder method or a step of freeze
RccStep ==
    \/ use_hse \/ sys_ck \/ sysclk \/ per_ck \/ hclk
    \/ pclk1 \/ pclk2 \/ pclk3 \/ pclk4
    \/ FreezeStep

\* C16: across any sequence of builder and freeze calls on the constrained
\* Rcc, each bus token and the CoreClocks snapshot is created at most once:
\* no token exists before freeze returns, the one Ccdr holds all eight, and
\* freeze has consumed the Rcc, so that nothing can create a second one.
C16_TokensCreatedOnce ==
    /\ \A t \in Tokens : Cardinality(Holders(t)) <= 1
    /\ Len(ccdr) <= 1
    /\ ~Returned => \A t \in Tokens : Holders(t) = {}
    /\ Returned =>
           /\ ccdr[1].tokens = Tokens
           /\ ccdr[1].clocks = CoreClocks(config, vos)
           /\ ~ENABLED RccStep

\* the eight tokens handed out
C16_Witness ==
    /\ pc = "frozen"
    /\ \A t \in Tokens : Holders(t) = {1}

\* the peripheral enable registers, and the token of each
EnableRegs ==
    {"ahb1enr", "ahb2enr", "ahb3enr", "ahb4enr", "apb1lenr", "apb1henr",
     "apb2enr", "apb3enr", "apb4enr"}

TokenOf(reg) ==
    CASE reg = "ahb1enr" -> "ahb1" [] reg = "ahb2enr" -> "ahb2"
      [] reg = "ahb3enr" -> "ahb3" [] reg = "ahb4enr" -> "ahb4"
      [] reg \in {"apb1lenr", "apb1henr"} -> "apb1"
      [] reg = "apb2enr" -> "apb2" [] reg = "apb3enr" -> "apb3"
      [] OTHER -> "apb4"

\* the register accesses made once the Ccdr exists
AfterFreeze(e) == "holds" \in DOMAIN e

\* C17: after the freeze, every write to a peripheral enable register is
\* made by code that holds the token of that bus by exclusive reference.
C17_EnableOnlyWithToken ==
    \A i \in 1..Len(trace) :
        (AfterFreeze(trace[i]) /\ trace[i].op = "w"
             /\ trace[i].reg \in EnableRegs) =>
            TokenOf(trace[i].reg) \in trace[i].holds

\* the legal prescaler values
ApbDivs == {1, 2, 4, 8, 16}
AhbDivs == {1, 2, 4, 8, 16, 64, 128, 256, 512}

CeilDiv(a, b) == (a + b - 1) \div b

\* p is the smallest member of S that is at least q
IsSmallest(p, S, q) == p \in S /\ q <= p /\ \A d \in S : q <= d => p <= d

\* the plan has passed every assertion of freeze
Planned == pc = "flash_write"

\* C18: for every AHB clock and every APB target at or below the ceiling,
\* the APB prescaler chosen is the smallest p of {1, 2, 4, 8, 16} with
\* ceil(hclk / target) <= p, so that hclk / p is at or below the target;
\* likewise the AHB prescaler over {1, 2, 4, 8, 16, 64, 128, 256, 512} for
\* the core clock and the hclk target.
C18_SmallestPrescaler ==
    Planned =>
        /\ \A n \in 1..4 :
               LET h == RccHclk(config)
                   t == PclkTarget(PclkReq(config, n), Ceilings(vos)[3], h)
                   p == Ppre(config, vos, n)[2]
               IN  t <= Ceilings(vos)[3] =>
                       /\ IsSmallest(p, ApbDivs, CeilDiv(h, t))
                       /\ h \div p <= t
        /\ LET c == sys_d1cpre_ck(config)
               t == RccHclkReq(config)
               p == Hpre(config)[2]
           IN  t <= Ceilings(vos)[2] =>
                   /\ IsSmallest(p, AhbDivs, CeilDiv(c, t))
                   /\ c \div p <= t

\* the request with the target of bus n replaced by t
WithPclk(cfg, n, t) ==
    CASE n = 1 -> [cfg EXCEPT !.rcc_pclk1 = t]
      [] n = 2 -> [cfg EXCEPT !.rcc_pclk2 = t]
      [] n = 3 -> [cfg EXCEPT !.rcc_pclk3 = t]
      [] n = 4 -> [cfg EXCEPT !.rcc_pclk4 = t]

\* C19: prescaler choice is monotone: for a fixed input clock, a target
\* t2 at or above t1 gets a prescaler at or below the one chosen for t1,
\* for each of the four APB prescalers (input hclk) and for the AHB
\* prescaler (input core clock).
C19_PrescalerMonotone ==
    Planned =>
        /\ \A n \in 1..4 :
               LET t1 == PclkTarget(PclkReq(config, n), Ceilings(vos)[3],
                                    RccHclk(config))
                   p1 == Ppre(config, vos, n)[2]
               IN  \A t2 \in DivTargets :
                       LET p2 == Ppre(WithPclk(config, n, t2), vos, n)[2]
                       IN  /\ t1 <= t2 => p2 <= p1
                           /\ t2 <= t1 => p1 <= p2
        /\ LET t1 == RccHclkReq(config)
               p1 == Hpre(config)[2]
           IN  \A t2 \in DivTargets :
                   LET p2 == Hpre([config EXCEPT !.rcc_hclk = t2])[2]
                   IN  /\ t1 <= t2 => p2 <= p1
                       /\ t2 <= t1 => p1 <= p2

\* a plan with APB prescaler 8 and AHB prescaler 4, both with larger and
\* smaller targets in the sweep
C19_Witness ==
    /\ Planned
    /\ Ppre(config, vos, 1)[2] = 8
    /\ Hpre(config)[2] = 4
    /\ Ppre(WithPclk(config, 1, 64000000), vos, 1)[2] = 1
    /\ Ppre(WithPclk(config, 1, 100000), vos, 1)[2] = 16

\* C20: when no hclk frequency is requested, the AHB/AXI clock reported
\* after freeze is half the core clock (AHB prescaler 2), for every core
\* clock the planner can produce.
C20_DefaultHclkIsHalf ==
    (Returned /\ config.rcc_hclk = None) =>
        /\ Clocks.hclk = Clocks.c_ck \div 2
        /\ Aclk(Clocks) = Clocks.c_ck \div 2
        /\ regs.hpre = "DIV2"

\* the divider the hardware applies for a DxPPRE code (0xx: not divided)
ApbDivOfBits(b) ==
    CASE b = 4 -> 2 [] b = 5 -> 4 [] b = 6 -> 8 [] b = 7 -> 16 [] OTHER -> 1

\* the divider the hardware applies for an HPRE setting
AhbDivOfHpre(h) ==
    CASE h = "DIV1" -> 1 [] h = "DIV2" -> 2 [] h = "DIV4" -> 4
      [] h = "DIV8" -> 8 [] h = "DIV16" -> 16 [] h = "DIV64" -> 64
      [] h = "DIV128" -> 128 [] h = "DIV256" -> 256 [] OTHER -> 512

\* C21: in every returned CoreClocks each ppreN is one of {1, 2, 4, 8, 16},
\* the AHB divider is one of {1, 2, 4, 8, 16, 64, 128, 256, 512}, pclkN is
\* hclk / ppreN and hclk is c_ck divided by the AHB divider; the code
\* written to the register of each bus stands for the same divider.
C21_DividersConsistent ==
    Returned =>
        /\ {Clocks.ppre1, Clocks.ppre2, Clocks.ppre3, Clocks.ppre4}
               \subseteq ApbDivs
        /\ AhbDivOfHpre(regs.hpre) \in AhbDivs
        /\ Clocks.hclk = Clocks.c_ck \div AhbDivOfHpre(regs.hpre)
        /\ Clocks.pclk1 = Clocks.hclk \div Clocks.ppre1
        /\ Clocks.pclk2 = Clocks.hclk \div Clocks.ppre2
        /\ Clocks.pclk3 = Clocks.hclk \div Clocks.ppre3
        /\ Clocks.pclk4 = Clocks.hclk \div Clocks.ppre4
        /\ ApbDivOfBits(regs.d2ppre1) = Clocks.ppre1
        /\ ApbDivOfBits(regs.d2ppre2) = Clocks.ppre2
        /\ ApbDivOfBits(regs.d1ppre) = Clocks.ppre3
        /\ ApbDivOfBits(regs.d3ppre) = Clocks.ppre4

\* a Ccdr with different dividers on APB1 and APB4 and an AHB divider of 4
C21_Witness ==
    /\ Returned
    /\ Clocks.ppre1 # Clocks.ppre4
    /\ Clocks.ppre1 > 2
    /\ regs.hpre \notin {"DIV1", "DIV2"}

\* the range arms that match a frequency
Matching(mhz, v) ==
    {i \in 1..Len(FlashArms(v)) :
         FlashArms(v)[i][1] <= mhz /\ mhz <= FlashArms(v)[i][2]}

\* the frequency flash_setup matches on
AclkMhz == FlashSetupArg(config) \div 1000000

\* C22: flash wait-state selection is total and deterministic: for every
\* voltage scale and every frequency in whole MHz exactly one band
\* matches (a range arm, or the wildcard above the last range), the bands
\* are contiguous without gap or overlap, and the pair written is the
\* pair of that band, a function of (voltage scale, frequency) alone.
C22_FlashBandsTotal ==
    LET arms == FlashArms(vos)
        m == Matching(AclkMhz, vos)
        last == arms[Len(arms)][2]
    IN  /\ Len(arms) > 0
        /\ arms[1][1] = 0
        /\ \A i \in 1..Len(arms) : arms[i][1] <= arms[i][2]
        /\ \A i \in 1..(Len(arms) - 1) : arms[i + 1][1] = arms[i][2] + 1
        /\ Cardinality(m) <= 1
        /\ m = {} <=> AclkMhz > last
        /\ Has(W("flash_acr")) =>
               <<regs.acr_latency_req, regs.acr_wrhighfreq>>
                   = IF m = {} THEN FlashDefault
                     ELSE arms[CHOOSE i \in m : TRUE][3]

\* the one-frequency band of Scale2 written
C22_Witness ==
    /\ vos = "Scale2"
    /\ AclkMhz = 225
    /\ Has(W("flash_acr"))
    /\ regs.acr_latency_req = 4

\* C23: whenever the PLL is engaged the reported pll1_q_ck equals
\* pll1_p_ck (the divider codes written for P and Q are equal) and
\* pll1_r_ck is None; when the PLL is not engaged all three are None.
C23_PllOutputs ==
    /\ Has(W("pll1divr")) => regs.divq1 = regs.divp1
    /\ Returned =>
           IF Has(W("pllcfgr"))
           THEN /\ IsSome(Clocks.pll1_p_ck)
                /\ Clocks.pll1_q_ck = Clocks.pll1_p_ck
                /\ Clocks.pll1_r_ck = None
                /\ regs.divq1 = regs.divp1
                /\ regs.divp1en /\ regs.divq1en
           ELSE /\ Clocks.pll1_p_ck = None
                /\ Clocks.pll1_q_ck = None
                /\ Clocks.pll1_r_ck = None
                /\ ~regs.pll1on

\* a Ccdr with the PLL dividing its VCO by 4 on P and on Q
C23_Witness ==
    /\ Returned
    /\ regs.pll1on
    /\ regs.divp1 = 3
    /\ regs.divq1 = 3
    /\ Clocks.pll1_q_ck = 100000000

\* the timer kernel clock for the x2 multiplier, by bus prescaler
TimTable(h, ppre) ==
    CASE ppre \in {1, 2} -> h
      [] ppre = 4 -> h \div 2
      [] ppre = 8 -> h \div 4
      [] ppre = 16 -> h \div 8

\* other APB targets, to reach every row of the table from each plan
TimProbes == {500000, 4000000, 16000000, 64000000}

\* C24: the two timer kernel clocks follow the table of the x2 timer
\* multiplier: timx_ker_ck (APB1) and timy_ker_ck (APB2) equal hclk when
\* the bus prescaler is 1 or 2, hclk/2 when 4, hclk/4 when 8 and hclk/8
\* when 16; so the timer clock is the bus clock on an undivided bus and
\* otherwise twice the bus clock up to rounding, never below it.
C24_TimerKernelClocks ==
    Returned =>
        /\ regs.timpre = "DEFAULTX2"
        /\ Clocks.timx_ker_ck = TimTable(Clocks.hclk, Clocks.ppre1)
        /\ Clocks.timy_ker_ck = TimTable(Clocks.hclk, Clocks.ppre2)
        /\ Clocks.ppre1 = 1 => Clocks.timx_ker_ck = Clocks.pclk1
        /\ Clocks.ppre2 = 1 => Clocks.timy_ker_ck = Clocks.pclk2
        /\ Clocks.ppre1 > 1 => Clocks.timx_ker_ck - 2 * Clocks.pclk1 \in {0, 1}
        /\ Clocks.ppre2 > 1 => Clocks.timy_ker_ck - 2 * Clocks.pclk2 \in {0, 1}
        /\ Clocks.timx_ker_ck >= Clocks.pclk1
        /\ Clocks.timy_ker_ck >= Clocks.pclk2
        /\ \A n \in {1, 2}, t \in TimProbes :
               LET c == WithPclk(config, n, t)
                   k == RccTimKerCk(c, vos, n)
               IN  /\ k = TimTable(RccHclk(c), Ppre(c, vos, n)[2])
                   /\ k >= RccPclk(c, vos, n)

\* APB1 divided by 8 and APB2 by 2: timers at hclk/4 and at hclk
C24_Witness ==
    /\ Returned
    /\ Clocks.ppre1 = 8
    /\ Clocks.ppre2 = 2
    /\ Clocks.timx_ker_ck = Clocks.hclk \div 4
    /\ Clocks.timy_ker_ck = Clocks.hclk
    /\ Ppre(WithPclk(config, 1, 500000), vos, 1)[2] = 16

\* scenario A: HSI, sys_ck(400 MHz), freeze at Scale0
ScenarioA ==
    /\ config = [EmptyConfig EXCEPT !.sys_ck = 400000000]
    /\ vos = "Scale0"

\* C25: with the internal 64 MHz source, a requested system clock of
\* 400 MHz and the highest-performance voltage scale, freeze does not
\* abort; the PLL is engaged with reference prescaler 32 (reference
\* 2 MHz), VCO 400 MHz and feedback divisor 200, and the reported sys_ck
\* is exactly 400 MHz with hclk 200 MHz and pclk1..4 100 MHz.
C25_ScenarioA ==
    ScenarioA =>
        /\ pc # "aborted" /\ abort = ""
        /\ PllEngaged(config)
        /\ ref1_ck(config) = 2000000
        /\ vco1_ck(config) = 400000000
        /\ vco1_ck(config) >= pll1_vco_min /\ vco1_ck(config) <= pll1_vco_max
        /\ Has(W("pllckselr")) => regs.pllsrc = "HSI" /\ regs.divm1 = 32
        /\ Has(W("pll1divr")) => regs.divn1 = 200 - 1 /\ regs.divp1 = 1 - 1
        /\ Has(W("cfgr.sw")) => regs.sw = "PLL1" /\ regs.pll1rdy
        /\ Returned =>
               /\ Clocks.sys_ck = 400000000
               /\ Clocks.c_ck = 400000000
               /\ Clocks.hclk = 200000000
               /\ Clocks.pclk1 = 100000000 /\ Clocks.pclk2 = 100000000
               /\ Clocks.pclk3 = 100000000 /\ Clocks.pclk4 = 100000000

\* scenario A frozen
C25_Witness ==
    /\ ScenarioA
    /\ pc = "frozen"
    /\ Returned
    /\ regs.divn1 = 199
    /\ regs.sws = "PLL1"

\* the documented usage: constrain().sys_ck(100.mhz()).freeze(vos, syscfg)
DocumentedUsage ==
    /\ config = [EmptyConfig EXCEPT !.sys_ck = 100000000]
    /\ FreezeCalled

\* C26: the documented usage with the internal oscillator succeeds at
\* every voltage scale (no assertion fails) and yields sys_ck = c_ck =
\* 100 MHz exactly, hclk = 50 MHz, pclk1..4 = 25 MHz and both timer kernel
\* clocks = 50 MHz.
C26_DocumentedUsage ==
    DocumentedUsage =>
        /\ vos \in Scales
        /\ pc # "aborted" /\ abort = ""
        /\ Returned =>
               /\ Clocks.sys_ck = 100000000
               /\ Clocks.c_ck = 100000000
               /\ Clocks.hclk = 50000000
               /\ Clocks.pclk1 = 25000000 /\ Clocks.pclk2 = 25000000
               /\ Clocks.pclk3 = 25000000 /\ Clocks.pclk4 = 25000000
               /\ Clocks.timx_ker_ck = 50000000
               /\ Clocks.timy_ker_ck = 50000000
               /\ Clocks.hse_ck = None

\* the documented usage frozen at the lowest voltage scale
C26_Witness ==
    /\ DocumentedUsage
    /\ vos = "Scale3"
    /\ pc = "frozen"
    /\ Returned
    /\ regs.sws = "PLL1"

\* pll_setup has planned the PLL for the request at hand
PllPlanned == pc # "builder" /\ PllEngaged(config)

\* C27: the PLL output divider P is 1 when the requested system frequency
\* is above half the VCO maximum (210 MHz); otherwise it is the largest
\* even P with requested frequency x P <= 420 MHz; P is never an odd
\* number above 1.
C27_OutputDividerP ==
    PllPlanned =>
        LET f == ReqSysCk(config)
            P == pll1_p(config)
        IN  /\ f > 210000000 => P = 1
            /\ f <= 210000000 =>
                   /\ P % 2 = 0
                   /\ P >= 2
                   /\ f * P <= 420000000
                   /\ f * (P + 2) > 420000000
            /\ P = 1 \/ P % 2 = 0
            /\ Has(W("pll1divr")) => regs.divp1 = P - 1

\* 140 MHz requested: 420 / 140 = 3, and P = 2 is written
C27_Witness ==
    /\ PllPlanned
    /\ ReqSysCk(config) = 140000000
    /\ Has(W("pll1divr"))
    /\ regs.divp1 = 1

\* C28: the reference prescaler M is the smallest integer with
\* source / M <= 2 MHz, that is M = ceil(source / 2 MHz); the planner
\* aborts when the reference would be below 1 MHz or M would be 64 or more.
C28_ReferencePrescalerM ==
    PllPlanned =>
        LET src == srcclk(config)
            M == pll1_m(config)
        IN  /\ src <= 2000000 * M
            /\ src > 2000000 * (M - 1)
            /\ ref1_ck(config) <= 2000000
            /\ (M >= 64 \/ ref1_ck(config) < 1000000) =>
                   /\ pc = "aborted"
                   /\ abort \in {"pll1_m", "ref1_ck"}
                   /\ ~Has(W("pllckselr"))
            /\ Has(W("pllckselr")) =>
                   /\ regs.divm1 = M
                   /\ M < 64
                   /\ ref1_ck(config) >= 1000000

\* a 24 MHz source: M = 12 written, the reference exactly 2 MHz
C28_Witness ==
    /\ PllPlanned
    /\ srcclk(config) = 24000000
    /\ Has(W("pllckselr"))
    /\ regs.divm1 = 12
    /\ ref1_ck(config) = 2000000

\* the second run has begun
SecondRun == \E i \in 1..Len(trace) : trace[i].op = "run"
MarkAt == CHOOSE i \in 1..Len(trace) : trace[i].op = "run"

Changed == {f \in DOMAIN config : config'[f] # config[f]}

\* C30: every field of the request is written at most once between
\* constrain and freeze, each builder call changes only its own field and
\* leaves every other field unchanged, and sys_ck and sysclk set the same
\* field.
C30_WriteOnceAndFrame ==
    [][/\ \A f \in Changed : config[f] = None
       /\ Cardinality(Changed) <= 1
       /\ Changed # {} => pc = "builder" /\ pc' = "builder"
       /\ sys_ck => Changed \subseteq {"sys_ck"}
       /\ sysclk => Changed \subseteq {"sys_ck"}
       /\ use_hse => Changed \subseteq {"hse"}
       /\ per_ck => Changed \subseteq {"per_ck"}
       /\ hclk => Changed \subseteq {"rcc_hclk"}
       /\ pclk1 => Changed \subseteq {"rcc_pclk1"}
       /\ pclk2 => Changed \subseteq {"rcc_pclk2"}
       /\ pclk3 => Changed \subseteq {"rcc_pclk3"}
       /\ pclk4 => Changed \subseteq {"rcc_pclk4"}]_vars

-----------------------------------------------------------------------------
\* pll_setup has planned the PLL and every one of its assertions held
PllAccepted == PllPlanned /\ pc # "aborted"

\* C31: whenever the PLL is engaged, the system clock produced
\* (reference x N / P) is at or below the requested system frequency, the
\* shortfall is below the reference frequency, itself at most 2 MHz, and
\* the sys_ck reported is never above the request.
C31_TruncationShortfall ==
    PllAccepted =>
        LET f == ReqSysCk(config)
            ref == ref1_ck(config)
            out == (ref * pll1_n(config)) \div pll1_p(config)
        IN  /\ PllOut(config)[1] = out
            /\ SysCk(config) = out
            /\ out <= f
            /\ f - out < ref
            /\ ref <= 2000000
            /\ Has(W("pll1divr")) =>
                   (ref * (regs.divn1 + 1)) \div (regs.divp1 + 1) = out
            /\ Returned => Clocks.sys_ck = out

\* 24.75 MHz source, 105 MHz requested: M = 13, P = 4, N = 220, and
\* 104 711 530 Hz produced
C31_Witness ==
    /\ PllAccepted
    /\ Has(W("pll1divr"))
    /\ config.hse = 24750000
    /\ config.sys_ck = 105000000
    /\ SysCk(config) < 105000000
    /\ SysCk(config) > 104000000

-----------------------------------------------------------------------------
\* freeze was called with a system frequency above the VCO maximum that is
\* not the frequency of the source
AboveVcoMax ==
    /\ pc # "builder"
    /\ ReqSysCk(config) > pll1_vco_max
    /\ ReqSysCk(config) # srcclk(config)

\* the source passes the assertions on the reference prescaler
SourceInRange ==
    /\ srcclk(config) > 0
    /\ pll1_m(config) < 64
    /\ ref1_ck(config) >= 1000000
    /\ ref1_ck(config) <= 2000000

\* C32 as stated: every such request aborts at the assertion on the VCO
\* maximum.
C32_Original ==
    AboveVcoMax => pc = "aborted" /\ abort = "vco_max"

\* C32: a requested system frequency above 420 MHz that differs from the
\* source aborts freeze inside pll_setup at every voltage scale, before any
\* register is written: at the assertion on the VCO maximum when the source
\* passes the assertions on the reference prescaler, and at one of those
\* otherwise; every plan pll_setup accepts yields a system clock at or
\* below 420 MHz.
C32_AboveVcoMaxAborts ==
    /\ AboveVcoMax =>
           /\ vos \in Scales
           /\ pc = "aborted"
           /\ trace = <<>>
           /\ regs = ResetRegs
           /\ ccdr = <<>>
           /\ IF SourceInRange
              THEN abort = "vco_max"
              ELSE abort \in {"srcclk", "pll1_m", "ref1_ck"}
    /\ PllAccepted =>
           /\ ReqSysCk(config) <= pll1_vco_max
           /\ SysCk(config) <= pll1_vco_max
    /\ Returned /\ PllEngaged(config) => Clocks.sys_ck <= pll1_vco_max

\* 455 MHz requested from the HSI at Scale0, whose core ceiling is 480 MHz
C32_Witness ==
    /\ AboveVcoMax
    /\ vos = "Scale0"
    /\ config.hse = None
    /\ config.sys_ck = 455000000
    /\ pc = "aborted"
    /\ abort = "vco_max"

-----------------------------------------------------------------------------
\* C33: the peripheral clock reported and selected by freeze is the HSE
\* frequency when the per_ck request equals the configured HSE frequency;
\* else 4 MHz (CSI) when the request is 4 MHz; else 64 MHz (HSI), also when
\* another frequency was requested, and the request never aborts freeze.
C33_PeripheralClock ==
    LET req == config.per_ck
        expected ==
            IF req # None /\ req = config.hse THEN <<config.hse, "HSE">>
            ELSE IF req = 4000000 THEN <<4000000, "CSI">>
            ELSE <<64000000, "HSI">>
    IN  /\ Has(W("d1ccipr")) => regs.ckpersel = expected[2]
        /\ Returned =>
               /\ Clocks.per_ck = expected[1]
               /\ regs.ckpersel = expected[2]
               /\ Clocks.per_ck \in {config.hse, 4000000, 64000000} \ {None}
        /\ pc # "aborted"

\* 25 MHz requested with an 8 MHz HSE: freeze returns, 64 MHz reported and
\* the HSI selected
C33_Witness ==
    /\ Returned
    /\ config.per_ck = 25000000
    /\ config.hse = 8000000
    /\ Clocks.per_ck = 64000000
    /\ regs.ckpersel = "HSI"

-----------------------------------------------------------------------------
\* no pclkN frequency is requested
NoPclkReq == \A n \in 1..4 : PclkReq(config, n) = None

\* the divider plan of freeze got past the ceiling checks of hclk
HclkPassed ==
    \/ pc = "flash_write"
    \/ pc = "aborted" /\
           abort \in {"rcc_pclk1", "rcc_pclk2", "rcc_pclk3", "rcc_pclk4"}

\* C34: when no pclkN frequency is requested and hclk (at least 2 Hz) has
\* passed its ceiling check, the default APB target min(ceiling, hclk / 2)
\* never triggers the pclk ceiling abort: the APB prescaler chosen is 2 or 4
\* and the resulting pclkN is at or below the APB ceiling, at every voltage
\* scale.
C34_DefaultApbTarget ==
    NoPclkReq /\ HclkPassed /\ RccHclk(config) >= 2 =>
        /\ pc = "flash_write"
        /\ vos \in Scales
        /\ \A n \in 1..4 :
               LET h == RccHclk(config)
                   max == Ceilings(vos)[3]
                   target == IF max < h \div 2 THEN max ELSE h \div 2
                   d == Ppre(config, vos, n)[2]
               IN  /\ d \in {2, 4}
                   /\ d = 2 <=> h % 2 = 0
                   /\ d = PpreOf(CeilDiv(h, target))[2]
                   /\ RccPclk(config, vos, n) = h \div d
                   /\ h \div d <= max

\* a 25 MHz HSE with hclk(500 kHz): hclk = 390 625 Hz, the default target
\* 195 312 Hz, quotient 3 and prescaler 4
C34_Witness ==
    /\ NoPclkReq
    /\ pc = "flash_write"
    /\ config.hse = 25000000
    /\ RccHclk(config) = 390625
    /\ Ppre(config, vos, 1)[2] = 4
    /\ RccPclk(config, vos, 1) = 97656

\* the HSI at Scale3 with hclk(64 MHz): the default target is 32 MHz and
\* the prescaler 2
C34_WitnessEven ==
    /\ NoPclkReq
    /\ pc = "flash_write"
    /\ vos = "Scale3"
    /\ RccHclk(config) = 64000000
    /\ Ppre(config, vos, 4)[2] = 2

-----------------------------------------------------------------------------
\* C35: in every returned CoreClocks, hse_ck is Some(f) exactly when
\* use_hse(f) was configured, and the external oscillator is switched on
\* and waited for exactly when it was configured; csi_ck is Some(4 MHz) and
\* hsi_ck Some(64 MHz); every PLL2 and PLL3 output is None; c_ck equals
\* sys_ck and aclk() equals hclk().
C35_ReportedSources ==
    /\ Has(W("cr.hseon")) => config.hse # None
    /\ Has(R("cr.hserdy")) =>
           /\ Before(W("cr.hseon"), R("cr.hserdy"))
           /\ regs.hseon /\ regs.hserdy
    /\ config.hse = None => ~regs.hseon
    /\ Returned =>
           /\ Clocks.hse_ck = config.hse
           /\ Clocks.hse_ck # None <=> Has(W("cr.hseon"))
           /\ Clocks.hse_ck # None <=> Has(R("cr.hserdy"))
           /\ Clocks.csi_ck = 4000000
           /\ Clocks.hsi_ck = 64000000
           /\ Clocks.pll2_p_ck = None /\ Clocks.pll2_q_ck = None
           /\ Clocks.pll2_r_ck = None
           /\ Clocks.pll3_p_ck = None /\ Clocks.pll3_q_ck = None
           /\ Clocks.pll3_r_ck = None
           /\ Clocks.c_ck = Clocks.sys_ck
           /\ Aclk(Clocks) = Clocks.hclk

\* use_hse(25 MHz).sys_ck(100 MHz) returned: hse_ck = Some(25 MHz), the
\* oscillator on and ready, c_ck = sys_ck = 99 999 952 Hz
C35_Witness ==
    /\ Returned
    /\ Clocks.hse_ck = 25000000
    /\ Has(R("cr.hserdy"))
    /\ Clocks.pll1_p_ck = 99999952
    /\ Clocks.c_ck = 99999952

\* nothing configured: hse_ck = None and the oscillator left off
C35_WitnessNoHse ==
    /\ Returned
    /\ Clocks.hse_ck = None
    /\ ~regs.hseon
    /\ ~Has(W("cr.hseon"))

-----------------------------------------------------------------------------
\* the pair flash_setup has written
FlashWritten == <<regs.acr_latency_req, regs.acr_wrhighfreq>>

\* C36: at each voltage scale the flash wait-states and the programming
\* delay selected are non-decreasing in the clock frequency: a higher
\* frequency never selects fewer wait-states or a smaller delay than a
\* lower one at the same scale.
C36_FlashMonotone ==
    Has(W("flash_acr")) =>
        \A f \in FlashFreqs :
            LET other == FlashSetup(f, vos)
            IN  /\ f >= FlashSetupArg(config) =>
                       /\ other[1] >= FlashWritten[1]
                       /\ other[2] >= FlashWritten[2]
                /\ f <= FlashSetupArg(config) =>
                       /\ other[1] <= FlashWritten[1]
                       /\ other[2] <= FlashWritten[2]

\* 185 MHz at Scale0: two wait-states as at 184 MHz, the delay raised to 2
C36_Witness ==
    /\ Has(W("flash_acr"))
    /\ vos = "Scale0"
    /\ FlashSetupArg(config) = 185000000
    /\ FlashWritten = <<2, 2>>
    /\ FlashSetup(184500000, vos) = <<2, 1>>

-----------------------------------------------------------------------------
\* the baud dividers of MBR
MbrDividers ==
    {"DIV2", "DIV4", "DIV8", "DIV16", "DIV32", "DIV64", "DIV128", "DIV256"}

\* the constructor of x ran to its end: the baud divider d written, the bus
\* enabled
SpiBuilt(x) ==
    /\ pc' = "frozen"
    /\ regs'.spimbr[x] \in MbrDividers
    /\ regs'.spispe[x]
    /\ Len(trace') = Len(trace) + 6
    /\ trace'[Len(trace) + 3] = SpiW(x, "cfg1")

\* the constructor of x aborted, the bus left disabled
SpiAborted(x) ==
    /\ pc' = "aborted"
    /\ ~regs'.spispe[x]
    /\ regs'.spimbr = regs.spimbr

\* for SPI1, SPI2 and SPI3 on the PLL1 Q selection the kernel clock is
\* absent exactly when freeze did not engage the PLL
KernelOfPll(x) ==
    x \in {"SPI1", "SPI2", "SPI3"} /\ regs.spi123sel = "PLL1_Q" =>
        (kernel_clk(x, ccdr[1], regs) = None <=> ~PllEngaged(config))

\* C37 as stated: the constructor aborts when the kernel clock is not
\* running or the requested frequency is above it, and in every other
\* case chooses a baud divider.
C37_Original ==
    [][\A x \in SpiNames, freq \in SpiFreqs :
           SpiNew(x, freq) =>
               LET ker == kernel_clk(x, ccdr[1], regs)
               IN  /\ KernelOfPll(x)
                   /\ IF ker = None \/ freq > ker
                      THEN SpiAborted(x)
                      ELSE SpiBuilt(x)]_vars

\* C37: constructing an SPI peripheral after the freeze aborts if the
\* kernel clock selected for it is not reported as running in CoreClocks
\* (for SPI1..3 on the PLL1 Q selection: exactly when the freeze did not
\* engage the PLL), if the requested frequency is above the kernel clock,
\* and if the requested frequency is zero; otherwise the baud divider
\* chosen is one of 2, 4, ..., 256.
C37_SpiConstructor ==
    [][\A x \in SpiNames, freq \in SpiFreqs :
           SpiNew(x, freq) =>
               LET ker == kernel_clk(x, ccdr[1], regs)
               IN  /\ KernelOfPll(x)
                   /\ IF ker = None \/ freq > ker \/ freq = 0
                      THEN SpiAborted(x)
                      ELSE SpiBuilt(x)]_vars

\* SPI1 built at 1 MHz on a PLL1 Q of 100 MHz: quotient 100, divider 128
C37_Witness ==
    /\ pc = "frozen"
    /\ Clocks.pll1_q_ck = 100000000
    /\ regs.spispe["SPI1"]
    /\ regs.spimbr["SPI1"] = "DIV128"

\* SPI2 constructed after a freeze that did not engage the PLL
C37_WitnessNoKernel ==
    /\ pc = "aborted"
    /\ abort = "spi_kernel_clk"
    /\ ~PllEngaged(config)
    /\ regs.spien["SPI2"]

\* a frequency above the kernel clock, and a frequency of zero
C37_WitnessAbove == pc = "aborted" /\ abort = "spi_mbr"
C37_WitnessZero == pc = "aborted" /\ abort = "spi_divide_by_zero"

-----------------------------------------------------------------------------
\* the value the call being made returns
Returns(op, res) ==
    /\ Len(trace') = Len(trace) + 1
    /\ trace'[Len(trace')].op = op
    /\ trace'[Len(trace')].res = res

\* the error flags of the status register in the order they are tested
ErrorFlags == <<"ovr", "modf", "crce">>
ErrorNames == <<"Overrun", "ModeFault", "Crc">>

\* the error flag i is set and no flag before it is
FirstError(i) ==
    /\ regs[ErrorFlags[i]]
    /\ \A j \in 1..(i - 1) : ~regs[ErrorFlags[j]]

NoError == \A i \in 1..3 : ~regs[ErrorFlags[i]]

\* C38: read and send test the status flags in the order Overrun,
\* ModeFault, Crc and report the first one set as an error before any data
\* is moved; only if none is set is a byte read (RXP set) or written and
\* the transfer started (TXP set); otherwise WouldBlock is returned and no
\* register is written.
C38_StatusPriority ==
    [][/\ read =>
           /\ \A i \in 1..3 :
                  FirstError(i) => Returns("read", ErrorNames[i]) /\ regs' = regs
           /\ NoError /\ regs.rxp =>
                  /\ Returns("read", "Ok")
                  /\ trace'[Len(trace')].data = regs.rxdr
                  /\ regs'.txdr = regs.txdr /\ regs'.cstart = regs.cstart
           /\ NoError /\ ~regs.rxp =>
                  Returns("read", "WouldBlock") /\ regs' = regs
       /\ \A b \in TxBytes : send(b) =>
           /\ \A i \in 1..3 :
                  FirstError(i) => Returns("send", ErrorNames[i]) /\ regs' = regs
           /\ NoError /\ regs.txp =>
                  /\ Returns("send", "Ok")
                  /\ regs' = [regs EXCEPT !.txdr = b, !.cstart = TRUE]
           /\ NoError /\ ~regs.txp =>
                  Returns("send", "WouldBlock") /\ regs' = regs]_vars

\* a mode fault and a CRC error both flagged with a byte waiting: read
\* reported the mode fault and then send did, nothing was transmitted
C38_Witness ==
    /\ pc = "spi"
    /\ ~regs.ovr /\ regs.modf /\ regs.crce /\ regs.rxp /\ regs.txp
    /\ Len(trace) = 2
    /\ trace[1] = Ret("read", "ModeFault", None)
    /\ trace[2] = Ret("send", "ModeFault", None)
    /\ regs.txdr = None
    /\ ~regs.cstart

\* a byte read and a byte sent with no error flagged
C38_WitnessOk ==
    /\ pc = "spi"
    /\ Len(trace) = 2
    /\ trace[1] = Ret("read", "Ok", 165)
    /\ trace[2] = Ret("send", "Ok", None)
    /\ regs.txdr = 60
    /\ regs.cstart

-----------------------------------------------------------------------------
\* the writes of the call that starts at position i of the trace
WritesOfCall(i) ==
    LET later == {j \in (i + 1)..Len(trace) : trace[j].op = "call"}
        end == IF later = {} THEN Len(trace)
               ELSE (CHOOSE j \in later : \A k \in later : j <= k) - 1
    IN  SubSeq(trace, i + 1, end)

\* C39: enable() enables the slave channel (when one exists) before the
\* master channel, and disable() disables the master channel before the
\* slave channel; so in every state reached by any sequence of enable and
\* disable calls the master channel is never enabled while the slave
\* channel is disabled.
C39_SlaveBeforeMaster ==
    LET m == config.master_channel
        sl == config.slave_channel
    IN  /\ sl # NoChannel => ~(regs[m] /\ ~regs[sl])
        /\ \A i \in 1..Len(trace) :
               /\ trace[i] = SaiCall("enable") =>
                      IsPrefix(WritesOfCall(i),
                               IF sl # NoChannel
                               THEN <<SaiW(sl, TRUE), SaiW(m, TRUE)>>
                               ELSE <<SaiW(m, TRUE)>>)
               /\ trace[i] = SaiCall("disable") =>
                      IsPrefix(WritesOfCall(i),
                               IF sl # NoChannel
                               THEN <<SaiW(m, FALSE), SaiW(sl, FALSE)>>
                               ELSE <<SaiW(m, FALSE)>>)
        /\ pc = "sai" /\ Len(trace) > 0 /\ sl # NoChannel =>
               regs[m] = regs[sl]

\* enable, disable, then enable caught between its two writes: the slave
\* B is enabled and the master A is not yet
C39_Witness ==
    /\ config.slave_channel = "ChannelB"
    /\ pc = "enable_master"
    /\ SaiCalls = 3
    /\ trace[1] = SaiCall("enable")
    /\ trace[4] = SaiCall("disable")
    /\ regs.ChannelB /\ ~regs.ChannelA

\* disable caught between its two writes: the master A is disabled, the
\* slave B still enabled
C39_WitnessDisable ==
    /\ config.slave_channel = "ChannelB"
    /\ pc = "disable_slave"
    /\ regs.ChannelB /\ ~regs.ChannelA

====
